---- MODULE Spec2Model ----
(***************************************************************************)
(* Model of the parsexl formula pipeline: parseFormula (clean, tokenize,   *)
(* Pratt parse, collapseBinary, normalizeFilters, pruneEmptyArgs) and of   *)
(* the exported parser entry point parseTokensPratt.                       *)
(*                                                                         *)
(* A JavaScript string is a sequence of one-character strings; offsets are *)
(* 0-based as in the source, so the character at offset k of s is s[k+1].  *)
(***************************************************************************)
EXTENDS Integers, Sequences, FiniteSets, TLC

(***************************************************************************)
(* Character classes used by the patterns of tokenRegexMap.                *)
(***************************************************************************)
Uppers == <<"A","B","C","D","E","F","G","H","I","J","K","L","M",
            "N","O","P","Q","R","S","T","U","V","W","X","Y","Z">>
Lowers == <<"a","b","c","d","e","f","g","h","i","j","k","l","m",
            "n","o","p","q","r","s","t","u","v","w","x","y","z">>
Upper == {Uppers[n] : n \in DOMAIN Uppers}
Lower == {Lowers[n] : n \in DOMAIN Lowers}
Letter == Upper \cup Lower
Digit == {"0","1","2","3","4","5","6","7","8","9"}
IdentStart == Letter \cup {"_"}
IdentChar == Letter \cup Digit \cup {"_"}
NamedChar == IdentChar \cup {"."}
\* \s of the regular expressions and of String.prototype.trim (the ASCII part)
WhiteSpace == {" ", "\t", "\n", "\r", "\f"}

\* String.prototype.toUpperCase on one character
ToUpperChar(c) ==
    IF c \in Lower THEN Uppers[CHOOSE n \in DOMAIN Lowers : Lowers[n] = c] ELSE c
toUpperCase(s) == [n \in DOMAIN s |-> ToUpperChar(s[n])]

\* the JavaScript string whose characters are s, as one TLA+ string
RECURSIVE Str(_)
Str(s) == IF s = <<>> THEN "" ELSE s[1] \o Str(Tail(s))

\* s.slice(k) and s.slice(a, b) for 0 <= a, b
SliceFrom(s, k) == IF k >= Len(s) THEN <<>> ELSE SubSeq(s, k + 1, Len(s))
Slice(s, a, b) ==
    LET e == IF b > Len(s) THEN Len(s) ELSE b
    IN  IF a >= e THEN <<>> ELSE SubSeq(s, a + 1, e)

(***************************************************************************)
(* Anchored regular-expression matching.  A matcher takes the slice s and  *)
(* the offset k reached so far and returns the offset after its match, or  *)
(* NoMatch (RegExp.exec returning null).  Every quantifier in the patterns *)
(* is greedy and every run is delimited by a character outside its class,  *)
(* so the first match of the backtracking engine is the one computed here. *)
(***************************************************************************)
NoMatch == -1

At(s, k) == IF k >= 0 /\ k < Len(s) THEN s[k + 1] ELSE ""

RECURSIVE Run(_, _, _)
\* C* from offset k
Run(s, k, C) == IF k < Len(s) /\ s[k + 1] \in C THEN Run(s, k + 1, C) ELSE k

RECURSIVE RunNot(_, _, _)
\* [^c]* from offset k
RunNot(s, k, c) == IF k < Len(s) /\ s[k + 1] # c THEN RunNot(s, k + 1, c) ELSE k

\* C+
Plus(s, k, C) ==
    IF k = NoMatch THEN NoMatch
    ELSE LET e == Run(s, k, C) IN IF e > k THEN e ELSE NoMatch

\* a literal word w
Lit(s, k, w) ==
    IF k = NoMatch THEN NoMatch
    ELSE IF k + Len(w) <= Len(s) /\ SubSeq(s, k + 1, k + Len(w)) = w
         THEN k + Len(w) ELSE NoMatch

\* a literal word w under the /i flag
LitCI(s, k, w) ==
    IF k = NoMatch THEN NoMatch
    ELSE IF k + Len(w) <= Len(s)
            /\ toUpperCase(SubSeq(s, k + 1, k + Len(w))) = toUpperCase(w)
         THEN k + Len(w) ELSE NoMatch

\* one character of class C
One(s, k, C) ==
    IF k = NoMatch THEN NoMatch
    ELSE IF At(s, k) \in C THEN k + 1 ELSE NoMatch

\* [C]? : an optional character of class C
Opt(s, k, C) ==
    IF k = NoMatch THEN NoMatch
    ELSE IF At(s, k) \in C THEN k + 1 ELSE k

\* a | b : the first alternative that matches
Alt(a, b) == IF a # NoMatch THEN a ELSE b

\* (?: g )? : the group's match if it has one, else nothing
OptGroup(k, g) == IF k = NoMatch THEN NoMatch ELSE IF g # NoMatch THEN g ELSE k

\* [A-Za-z_][A-Za-z0-9_]*
MIdent(s, k) ==
    IF k # NoMatch /\ At(s, k) \in IdentStart THEN Run(s, k + 1, IdentChar)
    ELSE NoMatch

\* open [^close]+ close   ('[^']+'  and  \[[^\]]+\])
MDelimited(s, k, open, close) ==
    IF k # NoMatch /\ At(s, k) = open
    THEN LET e == RunNot(s, k + 1, close)
         IN  IF e > k + 1 /\ At(s, e) = close THEN e + 1 ELSE NoMatch
    ELSE NoMatch

\* (?:'[^']+'|\[[^\]]+]|[A-Za-z_][A-Za-z0-9_]*)
MSheet(s, k) ==
    Alt(MDelimited(s, k, "'", "'"), Alt(MDelimited(s, k, "[", "]"), MIdent(s, k)))

\* (?:'[^']+'|[A-Za-z_][A-Za-z0-9_]*)
MSheetName(s, k) == Alt(MDelimited(s, k, "'", "'"), MIdent(s, k))

\* \$?[A-Za-z]{1,3}\$?\d+
MCell(s, k) ==
    IF k = NoMatch THEN NoMatch
    ELSE LET k1 == Opt(s, k, {"$"})
             k2 == Run(s, k1, Letter)
         IN  IF k2 - k1 \in 1..3 THEN Plus(s, Opt(s, k2, {"$"}), Digit)
             ELSE NoMatch

\* R\d+C\d+
MR1C1(s, k) == Plus(s, Lit(s, Plus(s, Lit(s, k, <<"R">>), Digit), <<"C">>), Digit)

RECURSIVE MLiteralBody(_, _, _)
\* (?:[^"]|"")*"  from offset k; pair is the offset of the last "" iteration,
\* where the engine closes the literal if it runs off the end of the input
MLiteralBody(s, k, pair) ==
    IF k >= Len(s) THEN (IF pair = NoMatch THEN NoMatch ELSE pair + 1)
    ELSE IF s[k + 1] # "\"" THEN MLiteralBody(s, k + 1, pair)
    ELSE IF At(s, k + 1) = "\"" THEN MLiteralBody(s, k + 2, k)
    ELSE k + 1

\* \d+(?:\.\d+)?
MDecimal(s, k) ==
    LET d == Plus(s, k, Digit)
    IN  OptGroup(d, Plus(s, Lit(s, d, <<".">>), Digit))

RECURSIVE MAnyWord(_, _, _)
\* (?:w1|w2|...) : the first word of ws that matches
MAnyWord(s, k, ws) ==
    IF ws = <<>> THEN NoMatch
    ELSE Alt(Lit(s, k, Head(ws)), MAnyWord(s, k, Tail(ws)))

DynamicErrorNames ==
    << <<"S","P","I","L","L">>, <<"C","A","L","C">>,
       <<"B","L","O","C","K","E","D">>, <<"F","I","E","L","D">> >>
ErrorNames ==
    << <<"N","U","L","L">>, <<"D","I","V","/","0">>, <<"V","A","L","U","E">>,
       <<"R","E","F">>, <<"N","A","M","E","?">>, <<"N","U","M">>,
       <<"N","/","A">>, <<"G","E","T","T","I","N","G","_","D","A","T","A">> >>
TwoCharOperators == << <<"<","=">>, <<">","=">>, <<"<",">">> >>
OneCharOperators == {"+", "-", "*", "/", "^", "&", "=", "<", ">"}

(***************************************************************************)
(* tokenRegexMap: the registration order and each pattern's anchored match *)
(***************************************************************************)
PatternOrder ==
    << "LITERAL", "BOOLEAN", "NUMBER", "PERCENTAGE", "DYNAMIC_ERROR", "ERROR",
       "THREE_D_REFERENCE", "EXTERNAL_REFERENCE", "RANGE", "CELL",
       "CELL_OR_RANGE", "R1C1", "STRUCTURED_EXT", "STRUCTURED_REFERENCE",
       "TABLE_COLUMN", "ARRAY", "OPERATOR", "PERCENT_OPERATOR", "WILDCARD",
       "PARENTHESIS", "ARG_SEPARATOR", "IMPLICIT_INTERSECTION",
       "SPILL_OPERATOR", "FUNCTION", "NAMED_RANGE" >>

\* the length of rx.exec(slice)[0] for the pattern registered as p, or NoMatch
rx(p, s) ==
    CASE p = "LITERAL" ->
            IF At(s, 0) = "\"" THEN MLiteralBody(s, 1, NoMatch) ELSE NoMatch
      [] p = "BOOLEAN" ->
            Alt(LitCI(s, 0, <<"T","R","U","E">>), LitCI(s, 0, <<"F","A","L","S","E">>))
      [] p = "NUMBER" ->
            LET f == MDecimal(s, 0)
            IN  OptGroup(f, Plus(s, Opt(s, One(s, f, {"e", "E"}), {"+", "-"}), Digit))
      [] p = "PERCENTAGE" -> Lit(s, MDecimal(s, 0), <<"%">>)
      [] p = "DYNAMIC_ERROR" ->
            Lit(s, MAnyWord(s, Lit(s, 0, <<"#">>), DynamicErrorNames), <<"!">>)
      [] p = "ERROR" ->
            Opt(s, MAnyWord(s, Lit(s, 0, <<"#">>), ErrorNames), {"!", "?"})
      [] p = "THREE_D_REFERENCE" ->
            LET a == MSheetName(s, 0)
                b == IF a = NoMatch THEN NoMatch ELSE Run(s, a, WhiteSpace)
                c == Lit(s, b, <<":">>)
                d == IF c = NoMatch THEN NoMatch ELSE Run(s, c, WhiteSpace)
            IN  MCell(s, Lit(s, MSheetName(s, d), <<"!">>))
      [] p = "EXTERNAL_REFERENCE" ->
            MCell(s, Lit(s, MSheetName(s, MDelimited(s, 0, "[", "]")), <<"!">>))
      [] p = "RANGE" ->
            MCell(s, Lit(s, MCell(s, Lit(s, MSheet(s, 0), <<"!">>)), <<":">>))
      [] p = "CELL" -> MCell(s, Lit(s, MSheet(s, 0), <<"!">>))
      [] p = "CELL_OR_RANGE" ->
            LET c == Alt(MCell(s, Lit(s, MIdent(s, 0), <<"!">>)), MCell(s, 0))
            IN  OptGroup(c, MCell(s, Lit(s, c, <<":">>)))
      [] p = "R1C1" ->
            LET c == MR1C1(s, 0)
            IN  OptGroup(c, MR1C1(s, Lit(s, c, <<":">>)))
      [] p = "STRUCTURED_EXT" ->
            LET a == Lit(s, MIdent(s, 0), <<"[", "[">>)
                e == IF a = NoMatch THEN NoMatch ELSE RunNot(s, a, "]")
            IN  IF a # NoMatch /\ e > a THEN Lit(s, e, <<"]", "]">>) ELSE NoMatch
      [] p = "STRUCTURED_REFERENCE" -> MDelimited(s, MIdent(s, 0), "[", "]")
      [] p = "TABLE_COLUMN" ->
            Lit(s, Plus(s, Lit(s, 0, <<"[", "@">>), IdentChar), <<"]">>)
      [] p = "ARRAY" ->
            IF At(s, 0) = "{" THEN Lit(s, RunNot(s, 1, "}"), <<"}">>) ELSE NoMatch
      [] p = "OPERATOR" -> Alt(MAnyWord(s, 0, TwoCharOperators), One(s, 0, OneCharOperators))
      [] p = "PERCENT_OPERATOR" -> Lit(s, 0, <<"%">>)
      [] p = "WILDCARD" -> One(s, 0, {"*", "?"})
      [] p = "PARENTHESIS" -> One(s, 0, {"(", ")"})
      [] p = "ARG_SEPARATOR" -> One(s, 0, {",", ";"})
      [] p = "IMPLICIT_INTERSECTION" -> Lit(s, 0, <<"@">>)
      [] p = "SPILL_OPERATOR" -> Lit(s, 0, <<"#">>)
      [] p = "FUNCTION" -> Lit(s, MIdent(s, 0), <<"(">>)
      [] p = "NAMED_RANGE" ->
            IF At(s, 0) \in IdentStart THEN Run(s, 1, NamedChar) ELSE NoMatch

(***************************************************************************)
(* Tokens and the tokenizer (tokenize).                                    *)
(***************************************************************************)
Pos(a, b) == [start |-> a, end |-> b]
Token(type, text, pos) == [type |-> type, text |-> text, pos |-> pos]

\* kinds that may hide a colon and therefore need splitting
RANGEABLE == {"CELL", "CELL_OR_RANGE", "EXTERNAL_REFERENCE", "THREE_D_REFERENCE"}
\* kinds that should ultimately look like CELL to Pratt
CELL_LIKE == {"CELL", "CELL_OR_RANGE", "EXTERNAL_REFERENCE", "THREE_D_REFERENCE",
              "R1C1", "STRUCTURED_REFERENCE", "STRUCTURED_EXT", "TABLE_COLUMN"}

\* formula.trim()
RECURSIVE TrimLeft(_)
TrimLeft(s) == IF s # <<>> /\ Head(s) \in WhiteSpace THEN TrimLeft(Tail(s)) ELSE s
RECURSIVE TrimRight(_)
TrimRight(s) ==
    IF s # <<>> /\ s[Len(s)] \in WhiteSpace THEN TrimRight(SubSeq(s, 1, Len(s) - 1))
    ELSE s
Trim(s) == TrimRight(TrimLeft(s))

\* .replace(/^=/, "")
StripLeadingEq(s) == IF s # <<>> /\ Head(s) = "=" THEN Tail(s) ELSE s

\* const src = formula.trim().replace(/^=/, "")
TokenizeSource(f) == StripLeadingEq(Trim(f))

\* the fast path's ^(sheet!cell):(cell) on the slice: the lengths of the
\* whole match and of its first group, NoMatch if it does not match
FastPath(s) ==
    LET left == MCell(s, Lit(s, MSheet(s, 0), <<"!">>))
    IN  [full |-> MCell(s, Lit(s, left, <<":">>)), left |-> left]

RECURSIVE ScanFrom(_, _, _, _)
\* the for-loop over Object.entries(tokenRegexMap) from entry n on, with the
\* loop's running kind and len ("" is the null kind)
ScanFrom(s, n, kind, len) ==
    IF n > Len(PatternOrder) THEN [kind |-> kind, len |-> len]
    ELSE LET m == rx(PatternOrder[n], s)
         IN  IF m # NoMatch /\ m > len
             THEN ScanFrom(s, n + 1, PatternOrder[n], m)
             ELSE ScanFrom(s, n + 1, kind, len)

RECURSIVE ScanFromLast(_, _, _, _)
\* the scan with >= for >: on a tie the class registered last wins
ScanFromLast(s, n, kind, len) ==
    IF n > Len(PatternOrder) THEN [kind |-> kind, len |-> len]
    ELSE LET m == rx(PatternOrder[n], s)
         IN  IF m # NoMatch /\ m >= len /\ m > 0
             THEN ScanFromLast(s, n + 1, PatternOrder[n], m)
             ELSE ScanFromLast(s, n + 1, kind, len)
LongestMatchTieLast(s) == ScanFromLast(s, 1, "", 0)

\* the longest-match scan on the slice
LongestMatch(s) == ScanFrom(s, 1, "", 0)

\* lexeme.indexOf(c), 0-based; the lexeme contains c
IndexOf(s, c) == (CHOOSE n \in 1..Len(s) : s[n] = c /\ \A m \in 1..(n - 1) : s[m] # c) - 1
Includes(s, c) == \E n \in 1..Len(s) : s[n] = c

\* the three tokens of a reference split at offset colon of its text
SplitRange(text, i, colon) ==
    << Token("CELL", Slice(text, 0, colon), Pos(i, i + colon)),
       Token(":", <<":">>, Pos(i + colon, i + colon + 1)),
       Token("CELL", SliceFrom(text, colon + 1), Pos(i + colon + 1, i + Len(text))) >>

\* the tokens pushed for the fast-path match of the slice at cursor i
EmitFastPath(s, i) ==
    LET m == FastPath(s)
    IN  << Token("CELL", Slice(s, 0, m.left), Pos(i, i + m.left)),
           Token(":", <<":">>, Pos(i + m.left, i + m.left + 1)),
           Token("CELL", Slice(s, m.left + 1, m.full), Pos(i + m.left + 1, i + m.full)) >>

\* case "ARG_SEPARATOR"
EmitSeparator(lexeme, pos) == << Token(",", <<",">>, pos) >>

\* case "FUNCTION"
EmitFunction(lexeme, pos) ==
    << Token("IDENT", Slice(lexeme, 0, Len(lexeme) - 1), pos),
       Token("LPAREN", <<"(">>, Pos(pos.end - 1, pos.end)) >>

\* the re-tag & emit switch: the tokens pushed for lexeme of class kind at i
Emit(kind, lexeme, i) ==
    LET pos == Pos(i, i + Len(lexeme))
    IN  CASE kind = "FUNCTION" -> EmitFunction(lexeme, pos)
          [] kind = "PARENTHESIS" ->
                << Token(IF lexeme = <<"(">> THEN "LPAREN" ELSE "RPAREN", lexeme, pos) >>
          [] kind = "ARG_SEPARATOR" -> EmitSeparator(lexeme, pos)
          [] kind \in {"OPERATOR", "PERCENT_OPERATOR"} ->
                << Token(Str(lexeme), lexeme, pos) >>
          [] OTHER ->
                IF kind \in RANGEABLE /\ Includes(lexeme, ":")
                THEN SplitRange(lexeme, i, IndexOf(lexeme, ":"))
                ELSE << Token(IF kind \in CELL_LIKE THEN "CELL" ELSE kind, lexeme, pos) >>

\* one iteration of the while loop at cursor i of src: the length consumed
\* and the tokens pushed; len = 0 when no class matches (the throw)
Step(src, i) ==
    LET s == SliceFrom(src, i)
        fp == FastPath(s)
        lm == LongestMatch(s)
    IN  IF fp.full # NoMatch
        THEN [fast |-> TRUE, kind |-> "RANGE", len |-> fp.full, toks |-> EmitFastPath(s, i)]
        ELSE IF lm.kind = ""
        THEN [fast |-> FALSE, kind |-> "", len |-> 0, toks |-> <<>>]
        ELSE [fast |-> FALSE, kind |-> lm.kind, len |-> lm.len,
              toks |-> Emit(lm.kind, Slice(s, 0, lm.len), i)]

\* the EOF token placed like the parser's EOF_TOKEN
EofTokenAtZero(src) == Token("EOF", <<>>, Pos(0, 0))

\* push({ type: "EOF", text: "", pos: { start: src.length, end: src.length } })
EofToken(src) == Token("EOF", <<>>, Pos(Len(src), Len(src)))

(***************************************************************************)
(* AST nodes.  value is a tagged record (undefined, string or number);     *)
(* name is "" when the node has no label; hasArgs is FALSE once            *)
(* pruneEmptyArgs has deleted the args property.                           *)
(***************************************************************************)
VUndefined == [kind |-> "undefined", str |-> "", mant |-> 0, exp |-> 0]
VString(s) == [kind |-> "string", str |-> Str(s), mant |-> 0, exp |-> 0]

Digits == <<"0","1","2","3","4","5","6","7","8","9">>
DigitValue(c) == (CHOOSE n \in DOMAIN Digits : Digits[n] = c) - 1

RECURSIVE Decimal(_, _)
\* the number written by the digit string ds, continuing from acc
Decimal(ds, acc) ==
    IF ds = <<>> THEN acc ELSE Decimal(Tail(ds), 10 * acc + DigitValue(Head(ds)))

RECURSIVE Normalize(_, _)
\* mant * 10^exp with no trailing zero left in mant
Normalize(mant, exp) ==
    IF mant = 0 THEN [kind |-> "number", str |-> "", mant |-> 0, exp |-> 0]
    ELSE IF mant % 10 = 0 THEN Normalize(mant \div 10, exp + 1)
    ELSE [kind |-> "number", str |-> "", mant |-> mant, exp |-> exp]

\* +tok.text for a text the NUMBER pattern matches: the value as mant * 10^exp
VNumber(text) ==
    LET d == Run(text, 0, Digit)
        f == OptGroup(d, Plus(text, Lit(text, d, <<".">>), Digit))
        hasExp == f < Len(text)
        neg == hasExp /\ At(text, f + 1) = "-"
        e0 == IF hasExp /\ At(text, f + 1) \in {"+", "-"} THEN f + 2 ELSE f + 1
        expo == IF hasExp THEN Decimal(SliceFrom(text, e0), 0) ELSE 0
        frac == IF f > d THEN Slice(text, d + 1, f) ELSE <<>>
    IN  IF text = <<>> THEN Normalize(0, 0)
        ELSE IF rx("NUMBER", text) # Len(text)
        THEN [kind |-> "NaN", str |-> "", mant |-> 0, exp |-> 0]
        ELSE Normalize(Decimal(Slice(text, 0, d) \o frac, 0),
                       (IF neg THEN 0 - expo ELSE expo) - Len(frac))

RECURSIVE Unescape(_)
\* .replace(/""/g, '"')
Unescape(s) ==
    IF Len(s) >= 2 /\ s[1] = "\"" /\ s[2] = "\""
    THEN <<"\"">> \o Unescape(SubSeq(s, 3, Len(s)))
    ELSE IF s = <<>> THEN <<>> ELSE <<s[1]>> \o Unescape(Tail(s))

\* NoId is the identity of a node that no call has returned yet
NoId == <<>>

Node(type, value, args, loc) ==
    [type |-> type, value |-> value, args |-> args, name |-> "",
     loc |-> loc, hasArgs |-> TRUE, id |-> NoId]

RECURSIVE Identify(_, _)
\* every node of a tree the parser returns is an object literal of its own:
\* its identity is named by the call and its path from the root
Identify(n, path) ==
    [n EXCEPT !.id = path,
              !.args = [k \in DOMAIN n.args |->
                            Identify(n.args[k], Append(path, ToString(k)))]]

RECURSIVE PreorderIds(_)
RECURSIVE PreorderIdsAll(_)
\* the identities of the nodes of a tree, parents first, left to right
PreorderIds(n) == <<n.id>> \o PreorderIdsAll(n.args)
PreorderIdsAll(ns) ==
    IF ns = <<>> THEN <<>> ELSE PreorderIds(Head(ns)) \o PreorderIdsAll(Tail(ns))

\* node(type, value, args, tok): the token's location is copied into the node
node(type, value, args, tok) == Node(type, value, args, Pos(tok.pos.start, tok.pos.end))

\* literal nud
literal(tok) ==
    IF tok.type = "LITERAL"
    THEN node("LITERAL", VString(Unescape(Slice(tok.text, 1, Len(tok.text) - 1))), <<>>, tok)
    ELSE IF tok.type = "NUMBER" THEN node("NUMBER", VNumber(tok.text), <<>>, tok)
    ELSE IF tok.type = "BOOLEAN"
    THEN node("BOOLEAN", VString(toUpperCase(tok.text)), <<>>, tok)
    ELSE node(tok.type, VString(tok.text), <<>>, tok)

nodeMissing(tok) == Node("Missing", VUndefined, <<>>, Pos(tok.pos.start, tok.pos.end))

(***************************************************************************)
(* The precedence table and the Pratt engine.  The cursor idx is threaded  *)
(* through the operators; a result carries the node, the cursor after it,  *)
(* and the error thrown, if any.                                           *)
(***************************************************************************)
Sym(lbp, nud, led) == [lbp |-> lbp, nud |-> nud, led |-> led]
Atom == Sym(0, "literal", "")
Comparison == Sym(30, "", "infixLeft")

\* the table with a "%" entry that has a binding power and no handler
tableNoPostfix ==
    [k \in {"NUMBER", "LITERAL", "BOOLEAN", "ERROR", "CELL", "RANGE",
            "NAMED_RANGE", "ARRAY"} |-> Atom]
    @@ [k \in {"+", "-"} |-> Sym(50, "prefix", "infixLeft")]
    @@ ("%" :> Sym(80, "", ""))
    @@ ("^" :> Sym(70, "", "infixRight"))
    @@ [k \in {"*", "/"} |-> Sym(60, "", "infixLeft")]
    @@ (":" :> Sym(40, "", "infixLeft"))
    @@ ("&" :> Sym(30, "", "infixLeft"))
    @@ [k \in {"=", "<", ">", ">=", "<=", "<>"} |-> Comparison]
    @@ ("LPAREN" :> Sym(0, "parenExpression", ""))
    @@ ("IDENT" :> Sym(0, "identifier", ""))
    @@ [k \in {",", "RPAREN", "EOF"} |-> Sym(0, "", "")]

table ==
    [k \in {"NUMBER", "LITERAL", "BOOLEAN", "ERROR", "CELL", "RANGE",
            "NAMED_RANGE", "ARRAY"} |-> Atom]
    @@ [k \in {"+", "-"} |-> Sym(50, "prefix", "infixLeft")]
    @@ ("%" :> Sym(80, "", "postfix"))
    @@ ("^" :> Sym(70, "", "infixRight"))
    @@ [k \in {"*", "/"} |-> Sym(60, "", "infixLeft")]
    @@ (":" :> Sym(40, "", "infixLeft"))
    @@ ("&" :> Sym(30, "", "infixLeft"))
    @@ [k \in {"=", "<", ">", ">=", "<=", "<>"} |-> Comparison]
    @@ ("LPAREN" :> Sym(0, "parenExpression", ""))
    @@ ("IDENT" :> Sym(0, "identifier", ""))
    @@ [k \in {",", "RPAREN", "EOF"} |-> Sym(0, "", "")]

EOF_TOKEN == Token("EOF", <<>>, Pos(0, 0))

\* the offset of a message that reports none
NoOffset == 0 - 1
NoError == [msg |-> "", at |-> NoOffset, text |-> "", ctx |-> ""]
Error(msg, at, text) == [msg |-> msg, at |-> at, text |-> text, ctx |-> ""]
NoNode == Node("", VUndefined, <<>>, Pos(0, 0))

Ok(n, idx) == [ok |-> TRUE, node |-> n, idx |-> idx, err |-> NoError]
Fail(err, idx) == [ok |-> FALSE, node |-> NoNode, idx |-> idx, err |-> err]

\* table[tok.type] ?? table[tok.text]; hasSpec is FALSE where safeSpec throws
hasSpec(tok) == tok.type \in DOMAIN table \/ Str(tok.text) \in DOMAIN table
safeSpec(tok) ==
    IF tok.type \in DOMAIN table THEN table[tok.type] ELSE table[Str(tok.text)]
NoPrattSpec(tok, idx) == Fail(Error("No Pratt spec", NoOffset, Str(tok.text)), idx)

\* tokens[idx + 0] ?? EOF_TOKEN
peek(ts, idx) == IF idx < Len(ts) THEN ts[idx + 1] ELSE EOF_TOKEN

\* expect("RPAREN") consuming whatever token comes next
expectRParenLenient(ts, r) == Ok(r.node, r.idx + 1)

\* expect("RPAREN") after the result r: the cursor moves past the parenthesis
expectRParen(ts, r) ==
    IF peek(ts, r.idx).type # "RPAREN"
    THEN Fail(Error("Expected RPAREN", peek(ts, r.idx).pos.start, ""), r.idx)
    ELSE Ok(r.node, r.idx + 1)

RECURSIVE expression(_, _, _)
RECURSIVE continuation(_, _, _, _)
RECURSIVE arguments(_, _, _)

\* return node(tok.text, undefined, [right], tok), right being the result of
\* expression(70)
prefixNode(tok, right) ==
    IF ~right.ok THEN right
    ELSE Ok(node(Str(tok.text), VUndefined, <<right.node>>, tok), right.idx)

\* prefix(tok), the cursor being after tok
prefix(ts, idx, tok) == prefixNode(tok, expression(ts, idx, 70))

\* postfix(left, tok)
postfix(ts, idx, left, tok) == Ok(node(Str(tok.text), VUndefined, <<left>>, tok), idx)

\* infixLeft keeping the operator as a sibling of its operands
infixLeftNodeTriple(left, tok, right) ==
    IF ~right.ok THEN right
    ELSE Ok(node(IF tok.text = <<":">> THEN "Range" ELSE Str(tok.text), VUndefined,
                 <<left, node(Str(tok.text), VUndefined, <<>>, tok), right.node>>, tok),
            right.idx)

\* infixLeft without the dedicated node type of the range operator
infixLeftNodeGeneric(left, tok, right) ==
    IF ~right.ok THEN right
    ELSE Ok(node(Str(tok.text), VUndefined, <<left, right.node>>, tok), right.idx)

\* the return statements of infixLeft, right being the result of expression(rbp)
infixLeftNode(left, tok, right) ==
    IF ~right.ok THEN right
    ELSE Ok(node(IF tok.text = <<":">> THEN "Range" ELSE Str(tok.text),
                 VUndefined, <<left, right.node>>, tok), right.idx)

\* infixLeft built with rbp one below the operator's binding power
infixLeftLoose(ts, idx, left, tok) ==
    infixLeftNode(left, tok, expression(ts, idx, safeSpec(tok).lbp - 1))

\* infixLeft(left, tok)
infixLeft(ts, idx, left, tok) ==
    infixLeftNode(left, tok, expression(ts, idx, safeSpec(tok).lbp))

\* the return statement of infixRight
infixRightNode(left, tok, right) ==
    IF ~right.ok THEN right
    ELSE Ok(node(Str(tok.text), VUndefined, <<left, right.node>>, tok), right.idx)

\* infixRight built with rbp equal to the operator's binding power
infixRightTight(ts, idx, left, tok) ==
    infixRightNode(left, tok, expression(ts, idx, safeSpec(tok).lbp))

\* infixRight(left, tok)
infixRight(ts, idx, left, tok) ==
    infixRightNode(left, tok, expression(ts, idx, safeSpec(tok).lbp - 1))

\* the group returned as a node of its own over the inner expression
closeParenGroup(ts, expr) ==
    IF ~expr.ok THEN expr
    ELSE IF ~expectRParen(ts, expr).ok THEN expectRParen(ts, expr)
    ELSE Ok(Node("Group", VUndefined, <<expr.node>>, expr.node.loc), expr.idx + 1)

\* expect("RPAREN") after the inner expression of a group
closeParen(ts, expr) == IF ~expr.ok THEN expr ELSE expectRParen(ts, expr)

\* parenExpression(_lp)
parenExpression(ts, idx) == closeParen(ts, expression(ts, idx, 0))

\* the list result carrying the arguments collected
ArgList(args, idx) == Ok([NoNode EXCEPT !.args = args], idx)

\* the loop without the test for a closing parenthesis after a comma
afterArgumentNoTrailing(ts, args, arg) ==
    IF ~arg.ok THEN arg
    ELSE IF peek(ts, arg.idx).type # ","
    THEN ArgList(Append(args, arg.node), arg.idx)
    ELSE arguments(ts, arg.idx + 1, Append(args, arg.node))

\* the rest of one iteration of the for (;;) loop once its argument arg is
\* pushed: break, push the trailing blank and break, or iterate
afterArgument(ts, args, arg) ==
    IF ~arg.ok THEN arg
    ELSE IF peek(ts, arg.idx).type # ","
    THEN ArgList(Append(args, arg.node), arg.idx)
    ELSE IF peek(ts, arg.idx + 1).type = "RPAREN"
    THEN ArgList(Append(Append(args, arg.node), nodeMissing(peek(ts, arg.idx + 1))),
                 arg.idx + 1)
    ELSE arguments(ts, arg.idx + 1, Append(args, arg.node))

\* the for (;;) loop of identifier from cursor idx with the args collected
arguments(ts, idx, args) ==
    afterArgument(ts, args,
                  IF peek(ts, idx).type = "," THEN Ok(nodeMissing(peek(ts, idx)), idx)
                  ELSE expression(ts, idx, 0))

\* return node(tok.text.toUpperCase(), undefined, args, tok) after expect
callNode(tok, list, close) ==
    IF ~close.ok THEN close
    ELSE Ok(node(Str(toUpperCase(tok.text)), VUndefined, list.node.args, tok), close.idx)

closeCall(ts, tok, list) ==
    IF ~list.ok THEN list ELSE callNode(tok, list, expectRParen(ts, list))

\* identifier(tok), the cursor being after tok
identifier(ts, idx, tok) ==
    IF peek(ts, idx).type = "LPAREN"
    THEN closeCall(ts, tok, IF peek(ts, idx + 1).type # "RPAREN"
                            THEN arguments(ts, idx + 1, <<>>)
                            ELSE ArgList(<<>>, idx + 1))
    ELSE Ok(node("NamedRange", VString(tok.text), <<>>, tok), idx)

\* the prefix handlers with a literal that leaves the cursor on its token
nudInPlace(ts, idx, t) ==
    LET h == safeSpec(t).nud
    IN  CASE h = "literal" -> Ok(literal(t), idx - 1)
          [] h = "prefix" -> prefix(ts, idx, t)
          [] h = "parenExpression" -> parenExpression(ts, idx)
          [] h = "identifier" -> identifier(ts, idx, t)
          [] OTHER -> Fail(Error("Unexpected token", NoOffset, Str(t.text)), idx)

\* spec.nud(t), the cursor being after t
nud(ts, idx, t) ==
    LET h == safeSpec(t).nud
    IN  CASE h = "literal" -> Ok(literal(t), idx)
          [] h = "prefix" -> prefix(ts, idx, t)
          [] h = "parenExpression" -> parenExpression(ts, idx)
          [] h = "identifier" -> identifier(ts, idx, t)
          [] OTHER -> Fail(Error("Unexpected token", NoOffset, Str(t.text)), idx)

\* ledSpec.led(left, t), the cursor being after t
led(ts, idx, left, t) ==
    LET h == safeSpec(t).led
    IN  CASE h = "postfix" -> postfix(ts, idx, left, t)
          [] h = "infixLeft" -> infixLeft(ts, idx, left, t)
          [] h = "infixRight" -> infixRight(ts, idx, left, t)
          [] OTHER -> Fail(Error("Token cannot appear here", NoOffset, Str(t.text)), idx)

\* the while loop of expression(rbp) resumed with the operand just built
resume(ts, rbp, left) ==
    IF ~left.ok THEN left ELSE continuation(ts, left.idx, left.node, rbp)

\* the while loop of expression(rbp) with the left operand built so far
continuation(ts, idx, left, rbp) ==
    IF ~hasSpec(peek(ts, idx)) THEN NoPrattSpec(peek(ts, idx), idx)
    ELSE IF ~(rbp < safeSpec(peek(ts, idx)).lbp) THEN Ok(left, idx)
    ELSE resume(ts, rbp, led(ts, idx + 1, left, peek(ts, idx)))

\* expression(rbp) from cursor idx
expression(ts, idx, rbp) ==
    IF ~hasSpec(peek(ts, idx)) THEN NoPrattSpec(peek(ts, idx), idx + 1)
    ELSE resume(ts, rbp, nud(ts, idx + 1, peek(ts, idx)))

\* the test after the top-level expression accepting any next token
trailingUnchecked(ts, ast) == ast

\* if (peek().type !== "EOF") throw ...; return ast
trailing(ts, ast) ==
    IF ~ast.ok THEN ast
    ELSE IF peek(ts, ast.idx).type # "EOF"
    THEN Fail(Error("Unexpected trailing token", NoOffset, Str(peek(ts, ast.idx).text)),
              ast.idx)
    ELSE ast

\* parseTokensPratt(ts): the tree, or the error thrown
parseTokensPratt(ts) == trailing(ts, expression(ts, 0, 0))

\* parseTokensPratt going on from the cursor it finds
parseFromCursor(ts, cursor) == trailing(ts, expression(ts, cursor, 0))

\* parseTokensPratt(ts) entered while the module's idx is cursor: tokens = ts
\* and idx = 0 replace what the call before left
parseWithCursor(ts, cursor) == parseTokensPratt(ts)

(***************************************************************************)
(* The transform passes and the final pruning.                             *)
(***************************************************************************)
\* the depth of nested calls at which the engine throws its RangeError
StackLimit == 16

cmp == {"<", ">", "<=", ">=", "=", "<>"}

RECURSIVE collapseScanByTwo(_, _, _)
\* the scan stepping by two after a wrapper, so that the right operand is
\* met again
collapseScanByTwo(args, i, pid) ==
    IF i >= Len(args) THEN <<>>
    ELSE IF i + 2 < Len(args) /\ args[i + 2].type \in cmp
    THEN << [type |-> "Expression", value |-> VUndefined,
             args |-> <<args[i + 1], args[i + 2], args[i + 3]>>, name |-> "",
             loc |-> Pos(args[i + 1].loc.start, args[i + 3].loc.end),
             hasArgs |-> TRUE, id |-> <<"Expression", ToString(i)>> \o pid] >>
         \o collapseScanByTwo(args, i + 2, pid)
    ELSE <<args[i + 1]>> \o collapseScanByTwo(args, i + 1, pid)

RECURSIVE collapseScan(_, _, _)
\* the for-loop of collapseBinary over the child list args of the node pid
\* from position i (0-based): the collapsed list
collapseScan(args, i, pid) ==
    IF i >= Len(args) THEN <<>>
    ELSE IF i + 2 < Len(args) /\ args[i + 2].type \in cmp
    THEN << [type |-> "Expression", value |-> VUndefined,
             args |-> <<args[i + 1], args[i + 2], args[i + 3]>>, name |-> "",
             loc |-> Pos(args[i + 1].loc.start, args[i + 3].loc.end),
             hasArgs |-> TRUE, id |-> <<"Expression", ToString(i)>> \o pid] >>
         \o collapseScan(args, i + 3, pid)
    ELSE <<args[i + 1]>> \o collapseScan(args, i + 1, pid)

RECURSIVE collapseBinaryAt(_, _)
RECURSIVE collapseChildren(_, _, _)

\* the loop over the children once child k is done with result c
nextChild(args, k, depth, c) ==
    IF ~c.ok THEN [ok |-> FALSE, args |-> args]
    ELSE collapseChildren([args EXCEPT ![k] = c.node], k + 1, depth)

\* the depth-first loop over the children from position k (1-based), in
\* order; ok is FALSE when a call below throws
collapseChildren(args, k, depth) ==
    IF k > Len(args) THEN [ok |-> TRUE, args |-> args]
    ELSE nextChild(args, k, depth, collapseBinaryAt(args[k], depth))

withChildren(n, kids) == [ok |-> kids.ok, node |-> [n EXCEPT !.args = kids.args]]

\* collapseBinary(node) called at the given call depth
collapseBinaryAt(n, depth) ==
    IF depth > StackLimit THEN [ok |-> FALSE, node |-> n]
    ELSE IF Len(n.args) = 0 THEN [ok |-> TRUE, node |-> n]
    ELSE withChildren(n, collapseChildren(collapseScan(n.args, 0, n.id), 1, depth + 1))

collapseBinary(n) == collapseBinaryAt(n, 1)

\* deepClone handing back its argument instead of a copy
deepCloneShared(n) == n

RECURSIVE deepClone(_)
\* deepClone(n): a copy of n and of everything below it; clonedMemo maps n
\* to its copy, so the copy's identity is a function of n's
deepClone(n) ==
    [type |-> n.type, value |-> n.value,
     args |-> [k \in DOMAIN n.args |-> deepClone(n.args[k])],
     name |-> n.name, loc |-> n.loc, hasArgs |-> n.hasArgs,
     id |-> <<"clone">> \o n.id]

\* flattenMultiplication returning its argument unsplit
flattenMultiplicationNone(n) == <<n>>

RECURSIVE flattenMultiplication(_)
\* the leaf operands of the chain of two-child "*" nodes rooted at n
flattenMultiplication(n) ==
    IF n.type = "*" /\ Len(n.args) = 2
    THEN flattenMultiplication(n.args[1]) \o flattenMultiplication(n.args[2])
    ELSE <<n>>

Wrapper(label, args, loc, id) ==
    [type |-> label, value |-> VUndefined, args |-> args, name |-> label,
     loc |-> loc, hasArgs |-> TRUE, id |-> id]

\* the nodes handed to deepClone by the rebuild of the FILTER node n
ClonedArguments(n) ==
    <<n.args[1]>> \o flattenMultiplication(n.args[2])
        \o (IF Len(n.args) >= 3 THEN <<n.args[3]>> ELSE <<>>)

\* the rebuilt child list of a FILTER node with at least two children
rebuildFilter(n) ==
    LET flat == flattenMultiplication(n.args[2])
        includeClauses == [k \in DOMAIN flat |-> deepClone(flat[k])]
        rebuilt == << Wrapper("array", <<deepClone(n.args[1])>>, n.args[1].loc,
                              <<"array">> \o n.id),
                      Wrapper("include", includeClauses, includeClauses[1].loc,
                              <<"include">> \o n.id) >>
    IN  IF Len(n.args) >= 3
        THEN Append(rebuilt, Wrapper("ifEmpty", <<deepClone(n.args[3])>>, n.args[3].loc,
                                     <<"ifEmpty">> \o n.id))
        ELSE rebuilt

\* the module-level tables of normalizeFilters.ts: the identities in
\* normalised, the keys of clonedMemo, and whether deepClone ever found its
\* argument in clonedMemo
Tables(visited, memo, hit) == [visited |-> visited, memo |-> memo, hit |-> hit]

Range(q) == {q[k] : k \in DOMAIN q}

\* the tables once node n is marked and, if it is rebuilt, its arguments
\* are cloned
Marked(n, rebuild, t) ==
    LET keys == IF rebuild THEN PreorderIdsAll(ClonedArguments(n)) ELSE <<>>
    IN  Tables(t.visited \cup {n.id}, t.memo \cup Range(keys),
               t.hit \/ Range(keys) \cap t.memo # {}
                     \/ Cardinality(Range(keys)) # Len(keys))

NeedsRebuild(n) == n.type = "FILTER" /\ Len(n.args) >= 2

RECURSIVE normalizeAt(_, _)
RECURSIVE normalizeChildren(_, _, _)

\* the recursion loop once child k is done with result r
normalizeNext(args, k, r) ==
    normalizeChildren([args EXCEPT ![k] = r.node], k + 1, r.tables)

\* for (const child of node.args) normalizeFilters(child), from child k on
normalizeChildren(args, k, t) ==
    IF k > Len(args) THEN [args |-> args, tables |-> t]
    ELSE normalizeNext(args, k, normalizeAt(args[k], t))

withNormalized(n, kids) ==
    [node |-> [n EXCEPT !.args = kids.args], tables |-> kids.tables]

\* normalizeFilters without the test of the visited set
normalizeAtUnguarded(n, t) ==
    withNormalized(n, normalizeChildren(IF NeedsRebuild(n) THEN rebuildFilter(n)
                                        ELSE n.args,
                                        1, Marked(n, NeedsRebuild(n), t)))

\* normalizeFilters(node) with the module-level tables t
normalizeAt(n, t) ==
    IF n.id \in t.visited THEN [node |-> n, tables |-> t]
    ELSE withNormalized(n, normalizeChildren(IF NeedsRebuild(n) THEN rebuildFilter(n)
                                             ELSE n.args,
                                             1, Marked(n, NeedsRebuild(n), t)))

normalizeFilters(n, t) == normalizeAt(n, t)

\* pruneEmptyArgs deleting the args of the root only
pruneEmptyArgsShallow(n) == IF Len(n.args) = 0 THEN [n EXCEPT !.hasArgs = FALSE] ELSE n

RECURSIVE pruneEmptyArgs(_)
\* pruneEmptyArgs(node): delete node.args where it is empty
pruneEmptyArgs(n) ==
    IF Len(n.args) = 0 THEN [n EXCEPT !.hasArgs = FALSE]
    ELSE [n EXCEPT !.args = [k \in DOMAIN n.args |-> pruneEmptyArgs(n.args[k])]]

\* parseFormula step 1: trim, drop one leading "=", drop every whitespace
RemoveWhiteSpace(s) == SelectSeq(s, LAMBDA c : c \notin WhiteSpace)
Cleaned(f) == RemoveWhiteSpace(StripLeadingEq(Trim(f)))

(***************************************************************************)
(* Inputs.  A formula is a concatenation of at most MaxChunks chunks; a    *)
(* token stream handed to parseTokensPratt is built from token kinds, each *)
(* with a fixed text, laid out at consecutive offsets and closed by EOF.   *)
(***************************************************************************)
MaxChunks == 3
MaxTokens == 3
MaxOps == 3
MaxArgItems == 4
MaxCallChunks == 2

SeqsUpTo(S, n) == UNION {[1..k -> S] : k \in 0..n}

RECURSIVE Flatten(_)
Flatten(ss) == IF ss = <<>> THEN <<>> ELSE Head(ss) \o Flatten(Tail(ss))

\* chunks of the formulas the tokenizer is exercised on
LexChunks ==
    { <<"=">>, <<" ">>, <<"1">>, <<"A","1">>, <<"S","!","A","1">>, <<":">>,
      <<"(">>, <<")">>, <<";">>, <<"\\">>, <<"*">> }
LexFormulas == {Flatten(cs) : cs \in SeqsUpTo(LexChunks, MaxChunks)}

KindText(kind) ==
    CASE kind = "CELL" -> <<"A","1">>
      [] kind = "NUMBER" -> <<"1">>
      [] kind = "IDENT" -> <<"F">>
      [] kind = "LPAREN" -> <<"(">>
      [] kind = "RPAREN" -> <<")">>
      [] kind = "<=" -> <<"<","=">>
      [] kind = ">=" -> <<">","=">>
      [] kind = "<>" -> <<"<",">">>
      [] OTHER -> <<kind>>

RECURSIVE Layout(_, _)
\* the tokens of the given kinds from offset at on, then EOF
Layout(kinds, at) ==
    IF kinds = <<>> THEN << Token("EOF", <<>>, Pos(at, at)) >>
    ELSE LET text == KindText(Head(kinds))
         IN  << Token(Head(kinds), text, Pos(at, at + Len(text))) >>
             \o Layout(Tail(kinds), at + Len(text))
TokenStream(kinds) == Layout(kinds, 0)

BinaryOps == {"+", "-", "*", "/", "^", ":", "&", "=", "<", ">", ">=", "<=", "<>"}
TokenKinds == {"CELL", "NUMBER", "IDENT", "LPAREN", "RPAREN", ",", "+", "*", "^",
               "=", ":", "%", "PERCENTAGE"}

\* a CELL, then up to MaxOps times an operator and a CELL
RECURSIVE Interleave(_)
Interleave(ops) ==
    IF ops = <<>> THEN <<"CELL">> ELSE <<"CELL", Head(ops)>> \o Interleave(Tail(ops))
OperatorChains == {Interleave(ops) : ops \in SeqsUpTo(BinaryOps, MaxOps)}

\* F( items ) with the items drawn from arguments, separators and nestings
ArgItems ==
    { <<"CELL">>, <<",">>, <<"+">>, <<"LPAREN", "CELL", "RPAREN">>,
      <<"IDENT", "LPAREN", "CELL", ",", "CELL", "RPAREN">> }
CallStreams ==
    { <<"IDENT", "LPAREN">> \o Flatten(items) \o <<"RPAREN">> :
        items \in SeqsUpTo(ArgItems, MaxArgItems) }

PrattStreams ==
    LET Shorter == {Interleave(ops) : ops \in SeqsUpTo(BinaryOps, MaxOps - 1)}
        Signed == { <<p>> \o c : p \in {"+", "-"},
                                 c \in {<<"CELL", "%">>, <<"CELL", "%", "^", "CELL">>}
                                         \cup {Interleave(<<op>>) : op \in BinaryOps} }
        GroupedLeft == { <<"LPAREN", "CELL", a, "CELL", "RPAREN", b, "CELL">> :
                            a \in BinaryOps, b \in BinaryOps }
        Grouped == { <<"LPAREN">> \o c \o <<"RPAREN">> :
                        c \in Shorter \cup Signed \cup GroupedLeft }
    IN  {TokenStream(ks) : ks \in SeqsUpTo(TokenKinds, MaxTokens) \cup OperatorChains
                                \cup CallStreams \cup Signed \cup Grouped
                                \cup GroupedLeft}
            \cup {<<>>}

\* calls whose last argument is a comparison of two atoms, and short
\* formulas around them
CmpLexemes == { <<"=">>, <<"<">>, <<">">>, <<">","=">>, <<"<","=">>, <<"<",">">> }
CallNames == { <<"S","U","M","(">>, <<"F","I","L","T","E","R","(">> }
FirstArgs == { <<>>, <<"A","1",",">>, <<"N","(","B","2",")",";">> }
Operands == { <<"A","1">>, <<"5">>, <<"x">> }
CmpCalls ==
    { f \o x \o a \o op \o b \o <<")">> :
        f \in CallNames, x \in FirstArgs, a \in Operands, op \in CmpLexemes,
        b \in Operands }
CallChunks ==
    { <<"A","1">>, <<"A","1",">","5">>, <<"F","(">>, <<")">>, <<"A",":","A">>,
      <<"S","!","A","1",":","B","2">>, <<",">>, <<"1","%">>, <<"=">> }
PrattFormulas ==
    CmpCalls \cup {Flatten(cs) : cs \in SeqsUpTo(CallChunks, MaxCallChunks)}
        \cup { <<"5","0","%">>, <<"1","2",".","5","%">>, <<"A","1","%">>,
               <<"(","5",")","%">> }

MaxClauses == 2
MaxPasses == 2
MaxCalls == 3

\* FILTER(array, include[, ifEmpty]) alone and inside SUM( ... ,1): the
\* include argument is a product of at most MaxClauses clauses, a bare
\* comparison, a product nested to the right or a FILTER call
RECURSIVE Product(_)
Product(cs) ==
    IF Len(cs) = 1 THEN cs[1] ELSE cs[1] \o <<"*">> \o Product(Tail(cs))
Masks ==
    LET Clauses == { <<"(","B","1","=","1",")">>, <<"(","C","1",">","2",")">>,
                     <<"B","1">> }
    IN  {Product(cs) : cs \in SeqsUpTo(Clauses, MaxClauses) \ {<<>>}}
            \cup { <<"B","1","=","2">>, <<"B","1","*","(","B","2","*","B","3",")">>,
                   <<"F","I","L","T","E","R","(","B","1",",","C","1",")">>, <<>> }
FilterCalls ==
    LET Arrays == { <<"A","1">>, <<"A","1",":","C","3">>,
                    <<"F","I","L","T","E","R","(","A","1",",","B","1","*","C","1",")">> }
        IfEmpties == { <<>>, <<",","0">>, <<",","C","1","<","3">> }
    IN  { <<"F","I","L","T","E","R","(">> \o x \o <<",">> \o m \o z \o <<")">> :
            x \in Arrays, m \in Masks, z \in IfEmpties }
QuickStart ==
    <<"=","S","U","M","(","F","I","L","T","E","R","(","A","1",":","C","1","0",",",
      "(","B",":","B","=","\"","W","e","s","t","\"",")","*",
      "(","C",":","C",">","1","0","0","0",")",")",")">>
FilterFormulas ==
    FilterCalls
        \cup { <<"S","U","M","(">> \o f \o <<",","1",")">> : f \in FilterCalls }
        \cup { QuickStart, <<"F","I","L","T","E","R","(","A","1">>,
               <<"F","I","L","T","E","R","(","A","1",")">>,
               <<"I","F","(","A","1",",","B","1","=","2",",","3",")">>,
               <<"I","F","(","A","1","=","1",",","B","1","=","2",",","3",",","4",")">> }

\* the formulas of a session: one returns, one is rebuilt by
\* normalizeFilters, and one each fails in tokenize, in the parser and in
\* collapseBinary
CallFormulas ==
    { <<"A","1","+","B","1">>,
      <<"F","I","L","T","E","R","(","A","1",",","B","1","*","C","1",")">>,
      <<"S","U","M","(","F","I","L","T","E","R","(","A","1",",","(","B","1","=","1",")",
        "*","(","C","1",">","2",")",")",",","1",")">>,
      <<"A","1","\\">>,
      <<"A","1","+">>,
      <<"F","I","L","T","E","R","(","A","1",",","B","1","=","2",",","3",")">> }

(***************************************************************************)
(* The state machine: one call of parseFormula or of parseTokensPratt.     *)
(***************************************************************************)
VARIABLES
    entry,      \* the exported function that was called
    formula,    \* parseFormula's argument
    pc,         \* where the call stands
    cleaned,    \* parseFormula's cleaned
    src,        \* tokenize's src
    i,          \* tokenize's cursor
    tokens,     \* tokenize's tokens, then the parser's token stream
    matches,    \* the matches made so far, in order (history): the class,
                \* whether by the fast path, the cursor and the lexeme
    ast,        \* the tree
    idx,        \* the parser's cursor
    error,      \* the error thrown, if any
    normalised, \* normalizeFilters.ts normalised: the identities of its members
    clonedMemo, \* normalizeFilters.ts clonedMemo: the identities of its keys
    memoHit,    \* whether deepClone ever found its argument in clonedMemo
    passes,     \* how often normalizeFilters was applied to the tree
    calls,      \* the number of the running call of the session
    history     \* how the earlier calls of the session ended

vars == <<entry, formula, pc, cleaned, src, i, tokens, matches, ast, idx, error,
          normalised, clonedMemo, memoHit, passes, calls, history>>

\* the module-level tables of normalizeFilters.ts
tables == <<normalised, clonedMemo, memoHit, passes>>

\* the session: the calls made so far
session == <<calls, history>>

InitWith(formulas, streams) ==
    /\ \/ entry = "parseFormula" /\ formula \in formulas /\ tokens = <<>>
          /\ pc = "clean"
       \/ entry = "parseTokensPratt" /\ formula = <<>> /\ tokens \in streams
          /\ pc = "parse"
    /\ cleaned = <<>>
    /\ src = <<>>
    /\ i = 0
    /\ matches = <<>>
    /\ ast = NoNode
    /\ idx = 0
    /\ error = NoError
    /\ normalised = {}
    /\ clonedMemo = {}
    /\ memoHit = FALSE
    /\ passes = 0
    /\ calls = 1
    /\ history = <<>>

Init == InitWith(LexFormulas, {TokenStream(ks) : ks \in SeqsUpTo(TokenKinds, 1)})
InitPratt == InitWith(PrattFormulas, PrattStreams)
InitFilter == InitWith(FilterFormulas, {})
InitCalls == InitWith(CallFormulas, {})

\* parseFormula, step 1
Clean ==
    /\ pc = "clean"
    /\ cleaned' = Cleaned(formula)
    /\ pc' = "tokenize"
    /\ UNCHANGED <<entry, formula, src, i, tokens, matches, ast, idx, error>>
    /\ UNCHANGED <<tables, session>>

\* tokenize(cleaned): the statements before the loop
TokenizeEnter ==
    /\ pc = "tokenize"
    /\ src' = TokenizeSource(cleaned)
    /\ tokens' = <<>>
    /\ i' = 0
    /\ pc' = "scan"
    /\ UNCHANGED <<entry, formula, cleaned, matches, ast, idx, error>>
    /\ UNCHANGED <<tables, session>>

\* one iteration of the tokenizer's loop that pushes tokens
TokenizeStep ==
    /\ pc = "scan"
    /\ i < Len(src)
    /\ LET st == Step(src, i)
       IN  /\ st.len > 0
           /\ tokens' = tokens \o st.toks
           /\ matches' = Append(matches, [kind |-> st.kind, fast |-> st.fast, at |-> i,
                                           lexeme |-> Slice(src, i, i + st.len)])
           /\ i' = i + st.len
    /\ UNCHANGED <<entry, formula, pc, cleaned, src, ast, idx, error>>
    /\ UNCHANGED <<tables, session>>

\* the throw reporting the start of the context window as the offset
LexErrorAtContext ==
    /\ pc = "scan"
    /\ i < Len(src)
    /\ Step(src, i).len = 0
    /\ error' = [msg |-> "Unrecognised input", at |-> IF i - 3 > 0 THEN i - 3 ELSE 0,
                 text |-> At(src, i),
                 ctx |-> Str(Slice(src, IF i - 3 > 0 THEN i - 3 ELSE 0, i + 3))]
    /\ pc' = "failed"
    /\ UNCHANGED <<entry, formula, cleaned, src, i, tokens, matches, ast, idx>>
    /\ UNCHANGED <<tables, session>>

\* the iteration in which no class matches: the throw
LexError ==
    /\ pc = "scan"
    /\ i < Len(src)
    /\ Step(src, i).len = 0
    /\ error' = [msg |-> "Unrecognised input", at |-> i, text |-> At(src, i),
                 ctx |-> Str(Slice(src, IF i - 3 > 0 THEN i - 3 ELSE 0, i + 3))]
    /\ pc' = "failed"
    /\ UNCHANGED <<entry, formula, cleaned, src, i, tokens, matches, ast, idx>>
    /\ UNCHANGED <<tables, session>>

\* the end of the loop: the EOF token is pushed and the tokens returned
TokenizeReturn ==
    /\ pc = "scan"
    /\ i >= Len(src)
    /\ tokens' = Append(tokens, EofToken(src))
    /\ pc' = "parse"
    /\ UNCHANGED <<entry, formula, cleaned, src, i, matches, ast, idx, error>>
    /\ UNCHANGED <<tables, session>>

\* parseTokensPratt(tokens) returning the tree
Parse ==
    /\ pc = "parse"
    /\ LET r == parseWithCursor(tokens, idx)
       IN  /\ r.ok
           /\ ast' = Identify(r.node, <<"call", ToString(calls)>>)
           /\ idx' = r.idx
    /\ pc' = IF entry = "parseFormula" THEN "collapse" ELSE "done"
    /\ UNCHANGED <<entry, formula, cleaned, src, i, tokens, matches, error>>
    /\ UNCHANGED <<tables, session>>

\* parseTokensPratt(tokens) throwing
ParseError ==
    /\ pc = "parse"
    /\ LET r == parseWithCursor(tokens, idx)
       IN  /\ ~r.ok
           /\ error' = r.err
           /\ idx' = r.idx
    /\ pc' = "failed"
    /\ UNCHANGED <<entry, formula, cleaned, src, i, tokens, matches, ast>>
    /\ UNCHANGED <<tables, session>>

\* collapseBinary(ast)
CollapseBinary ==
    /\ pc = "collapse"
    /\ LET r == collapseBinary(ast)
       IN  IF r.ok
           THEN ast' = r.node /\ pc' = "normalize" /\ error' = error
           ELSE ast' = ast /\ pc' = "failed"
                /\ error' = Error("Maximum call stack size exceeded", NoOffset, "")
    /\ UNCHANGED <<entry, formula, cleaned, src, i, tokens, matches, idx>>
    /\ UNCHANGED <<tables, session>>

\* normalizeFilters(ast)
NormalizeFilters ==
    /\ pc = "normalize"
    /\ LET r == normalizeFilters(ast, Tables(normalised, clonedMemo, memoHit))
       IN  /\ ast' = r.node
           /\ normalised' = r.tables.visited
           /\ clonedMemo' = r.tables.memo
           /\ memoHit' = r.tables.hit
    /\ passes' = passes + 1
    /\ pc' = "prune"
    /\ UNCHANGED <<entry, formula, cleaned, src, i, tokens, matches, idx, error, session>>

\* normalizeFilters applied once more to the tree it has normalized
NormalizeAgain ==
    /\ pc = "prune"
    /\ passes < MaxPasses
    /\ LET r == normalizeFilters(ast, Tables(normalised, clonedMemo, memoHit))
       IN  /\ ast' = r.node
           /\ normalised' = r.tables.visited
           /\ clonedMemo' = r.tables.memo
           /\ memoHit' = r.tables.hit
    /\ passes' = passes + 1
    /\ UNCHANGED <<entry, formula, pc, cleaned, src, i, tokens, matches, idx, error,
                   session>>

\* pruneEmptyArgs(ast) and the return
PruneEmptyArgs ==
    /\ pc = "prune"
    /\ ast' = pruneEmptyArgs(ast)
    /\ pc' = "done"
    /\ UNCHANGED <<entry, formula, cleaned, src, i, tokens, matches, idx, error>>
    /\ UNCHANGED <<tables, session>>

\* the next call of parseFormula in the same session: the locals are new,
\* the module-level variables of pratt.ts and normalizeFilters.ts are kept
NextCall ==
    /\ entry = "parseFormula"
    /\ pc \in {"done", "failed"}
    /\ calls < MaxCalls
    /\ formula' \in CallFormulas
    /\ pc' = "clean"
    /\ calls' = calls + 1
    /\ history' = Append(history, IF pc = "done" THEN "returned" ELSE error.msg)
    /\ cleaned' = <<>>
    /\ src' = <<>>
    /\ i' = 0
    /\ matches' = <<>>
    /\ ast' = NoNode
    /\ error' = NoError
    /\ passes' = 0
    /\ UNCHANGED <<entry, tokens, idx, normalised, clonedMemo, memoHit>>

Next ==
    \/ Clean
    \/ TokenizeEnter
    \/ TokenizeStep
    \/ LexError
    \/ TokenizeReturn
    \/ Parse
    \/ ParseError
    \/ CollapseBinary
    \/ NormalizeFilters
    \/ PruneEmptyArgs

Spec == Init /\ [][Next]_vars
SpecPratt == InitPratt /\ [][Next]_vars

\* one call of parseFormula on a formula around FILTER, the tree being
\* normalized again before it is pruned
SpecFilter == InitFilter /\ [][Next \/ NormalizeAgain]_vars

\* a session of calls of parseFormula
SpecCalls == InitCalls /\ [][Next \/ NextCall]_vars

(***************************************************************************)
(* Properties of the tokenizer.                                            *)
(***************************************************************************)
\* tokenize has returned its tokens to parseFormula
TokenizeSucceeded ==
    /\ entry = "parseFormula"
    /\ pc \notin {"clean", "tokenize", "scan"}
    /\ error.msg # "Unrecognised input"

\* the tokens before the EOF sentinel
Emitted == SubSeq(tokens, 1, Len(tokens) - 1)
EmittedText == Flatten([k \in DOMAIN Emitted |-> Emitted[k].text])

\* C1: whenever tokenize succeeds, the texts of the emitted tokens, in
\* order and without the EOF sentinel, concatenate to the cleaned input
C1_TokenTextsRebuildCleaned == TokenizeSucceeded => EmittedText = cleaned

\* C2: whenever tokenize succeeds the spans leave no gap: the first token
\* starts at 0, each next token starts no later than the end of the one
\* before it, every offset of the tokenized string lies in some span, the
\* last token before EOF ends at the length of the string, and exactly one
\* EOF token, the last token, has the empty span [len, len]
C2_SpansCoverInput ==
    TokenizeSucceeded =>
        /\ Len(tokens) >= 1
        /\ tokens[1].pos.start = 0
        /\ \A k \in 2..Len(tokens) : tokens[k].pos.start <= tokens[k - 1].pos.end
        /\ \A o \in 0..(Len(src) - 1) :
              \E k \in DOMAIN Emitted : Emitted[k].pos.start <= o /\ o < Emitted[k].pos.end
        /\ Len(tokens) >= 2 => tokens[Len(tokens) - 1].pos.end = Len(src)
        /\ \A k \in DOMAIN tokens : tokens[k].type = "EOF" <=> k = Len(tokens)
        /\ tokens[Len(tokens)].pos = Pos(Len(src), Len(src))

\* tokenize succeeded on an input of which the span of a function name
\* overlaps the span of its parenthesis, and more tokens follow
C2_Witness ==
    /\ TokenizeSucceeded
    /\ Len(tokens) >= 4
    /\ \E k \in 2..(Len(tokens) - 2) :
          /\ tokens[k - 1].type = "IDENT"
          /\ tokens[k].pos.start < tokens[k - 1].pos.end

PatternIndex(p) == CHOOSE n \in DOMAIN PatternOrder : PatternOrder[n] = p

\* the class p is the longest match on the slice s, and the earliest
\* registered among the classes whose match is as long
LongestEarliest(p, s) ==
    /\ rx(p, s) > 0
    /\ \A n \in DOMAIN PatternOrder : rx(PatternOrder[n], s) <= rx(p, s)
    /\ \A n \in 1..(PatternIndex(p) - 1) : rx(PatternOrder[n], s) < rx(p, s)

\* the match made last
LastMatch == matches[Len(matches)]

\* C3: the match just made off the fast path (each match is, in the state
\* its iteration leaves) took, at its cursor, the class whose anchored match
\* on the remaining input is longest, the earliest registered one among
\* equally long matches, and consumed exactly that match
C3_LongestMatchEarliestWins ==
    (pc = "scan" /\ matches # <<>> /\ ~LastMatch.fast) =>
        /\ LongestEarliest(LastMatch.kind, SliceFrom(src, LastMatch.at))
        /\ Len(LastMatch.lexeme) = rx(LastMatch.kind, SliceFrom(src, LastMatch.at))
        /\ i = LastMatch.at + Len(LastMatch.lexeme)

\* a match was made where a later class matched as long as the chosen one,
\* and one where an earlier class matched, but shorter
C3_Witness ==
    /\ \E k \in DOMAIN matches :
          /\ ~matches[k].fast
          /\ \E n \in (PatternIndex(matches[k].kind) + 1)..Len(PatternOrder) :
                rx(PatternOrder[n], SliceFrom(src, matches[k].at)) = Len(matches[k].lexeme)
    /\ \E k \in DOMAIN matches :
          /\ ~matches[k].fast
          /\ \E n \in 1..(PatternIndex(matches[k].kind) - 1) :
                rx(PatternOrder[n], SliceFrom(src, matches[k].at)) > 0

RECURSIVE SumLen(_)
SumLen(ms) == IF ms = <<>> THEN 0 ELSE Len(Head(ms).lexeme) + SumLen(Tail(ms))

LexFailed == pc = "failed" /\ error.msg = "Unrecognised input"

\* C4: a lexer failure reports the cursor offset and the character at it,
\* at a position where neither the fast path nor any class matches; the
\* offset is the sum of the lengths of the matches made before, and no
\* token sequence (none closed by EOF) and no tree exist
C4_LexErrorReportsCursor ==
    LexFailed =>
        /\ error.at = i
        /\ i < Len(src)
        /\ error.text = src[i + 1]
        /\ FastPath(SliceFrom(src, i)).full = NoMatch
        /\ \A n \in DOMAIN PatternOrder : rx(PatternOrder[n], SliceFrom(src, i)) = NoMatch
        /\ error.at = SumLen(matches)
        /\ \A k \in DOMAIN tokens : tokens[k].type # "EOF"
        /\ ast = NoNode

\* the lexer failed after having matched at least two lexemes
C4_Witness == LexFailed /\ Len(matches) >= 2 /\ error.at >= 2

\* C5: the tokenizer works on the cleaned string of parseFormula, from
\* which one leading "=" was removed and no more
C5_TokenizerKeepsSecondEq ==
    (entry = "parseFormula" /\ pc \notin {"clean", "tokenize"}) => src = cleaned

(***************************************************************************)
(* Properties of the parser and of the pipeline after it.                  *)
(***************************************************************************)
\* parseTokensPratt has returned its tree and no pass has run on it yet
ParseReturned ==
    \/ entry = "parseTokensPratt" /\ pc = "done"
    \/ entry = "parseFormula" /\ pc = "collapse"

\* parseTokensPratt has thrown
ParseThrew ==
    /\ pc = "failed"
    /\ error.msg \notin {"Unrecognised input", "Maximum call stack size exceeded"}

RECURSIVE NodeCount(_)
RECURSIVE NodeCountAll(_)
\* the nodes of a tree that stand for a token: all but the Missing ones
NodeCount(n) == (IF n.type = "Missing" THEN 0 ELSE 1) + NodeCountAll(n.args)
NodeCountAll(ns) == IF ns = <<>> THEN 0 ELSE NodeCount(Head(ns)) + NodeCountAll(Tail(ns))

\* the tokens before the cursor k that leave no node: parentheses and commas
Punctuation(ts, k) ==
    Cardinality({j \in 1..k : ts[j].type \in {"LPAREN", "RPAREN", ","}})

\* the top-level expression e was reduced and a token other than EOF follows
TrailingToken(ts, e) == e.ok /\ peek(ts, e.idx).type # "EOF"

\* C6: when parseTokensPratt returns a tree the cursor rests on the EOF
\* token, which is the last, and each token before it was consumed once: it
\* is a parenthesis or a comma, or has exactly one node of the tree; when
\* the top-level expression is reduced and the next token is not EOF, the
\* call throws "Unexpected trailing token" and no tree exists
C6_TreeOnlyAtEof ==
    /\ ParseReturned =>
          /\ peek(tokens, idx).type = "EOF"
          /\ idx = Len(tokens) - 1
          /\ NodeCount(ast) + Punctuation(tokens, idx) = idx
    /\ ((ParseReturned \/ ParseThrew) /\ TrailingToken(tokens, expression(tokens, 0, 0))) =>
          /\ ParseThrew
          /\ error.msg = "Unexpected trailing token"
          /\ error.text = Str(peek(tokens, idx).text)
          /\ ast = NoNode

\* parseTokensPratt threw on a token left over after a reduced expression
\* of three tokens or more
C6_Witness ==
    /\ ParseThrew
    /\ error.msg = "Unexpected trailing token"
    /\ idx >= 3
    /\ idx < Len(tokens) - 1

AtomTypes == {"NUMBER", "LITERAL", "BOOLEAN", "ERROR", "CELL", "RANGE", "NAMED_RANGE",
              "ARRAY"}

\* n is the leaf node of the atom token tok
LeafOf(n, tok) == n.type = tok.type /\ n.args = <<>> /\ n.loc = tok.pos

\* n is the node of the operator token op over the leaves of the atoms a, b
BinaryOf(n, op, a, b) ==
    /\ n.type = (IF op.text = <<":">> THEN "Range" ELSE Str(op.text))
    /\ Len(n.args) = 2
    /\ LeafOf(n.args[1], a)
    /\ LeafOf(n.args[2], b)
    /\ n.loc = op.pos

IsBinaryOp(tok) == Str(tok.text) \in BinaryOps /\ tok.type \notin AtomTypes

\* ts is a op1 b op2 c, then EOF, with neither operator "^"
OperatorPair(ts) ==
    /\ Len(ts) = 6
    /\ \A k \in {1, 3, 5} : ts[k].type \in AtomTypes
    /\ \A k \in {2, 4} : IsBinaryOp(ts[k]) /\ ts[k].text # <<"^">>

\* C7: a op1 b op2 c, neither operator being "^", parses to
\* op1(a, op2(b, c)) when op2 binds strictly tighter than op1, and to
\* op2(op1(a, b), c) otherwise
C7_PrecedenceGrouping ==
    ((ParseReturned \/ ParseThrew) /\ OperatorPair(tokens)) =>
        /\ ParseReturned
        /\ Len(ast.args) = 2
        /\ IF safeSpec(tokens[4]).lbp > safeSpec(tokens[2]).lbp
           THEN /\ ast.type = (IF tokens[2].text = <<":">> THEN "Range"
                               ELSE Str(tokens[2].text))
                /\ LeafOf(ast.args[1], tokens[1])
                /\ BinaryOf(ast.args[2], tokens[4], tokens[3], tokens[5])
           ELSE /\ ast.type = (IF tokens[4].text = <<":">> THEN "Range"
                               ELSE Str(tokens[4].text))
                /\ BinaryOf(ast.args[1], tokens[2], tokens[1], tokens[3])
                /\ LeafOf(ast.args[2], tokens[5])

\* a tree was returned for two operators of equal binding power
C7_Witness ==
    /\ ParseReturned
    /\ OperatorPair(tokens)
    /\ tokens[2].text # tokens[4].text
    /\ safeSpec(tokens[2]).lbp = safeSpec(tokens[4]).lbp
    /\ ast.type = Str(tokens[4].text)

\* ts starts with a ^ b ^ c
PowerChain(ts) ==
    /\ Len(ts) >= 6
    /\ \A k \in {1, 3, 5} : ts[k].type \in AtomTypes
    /\ \A k \in {2, 4} : ts[k].text = <<"^">> /\ ts[k].type \notin AtomTypes

\* n is ^(a, ^(b, c)) over the first five tokens of ts
RightNested(n, ts) ==
    /\ n.type = "^"
    /\ Len(n.args) = 2
    /\ LeafOf(n.args[1], ts[1])
    /\ BinaryOf(n.args[2], ts[4], ts[3], ts[5])

\* C8: a ^ b ^ c parses to ^(a, ^(b, c)), and in a ^ b ^ c op d with op
\* binding less tightly than "^" the operator op is applied to that whole
\* chain and to d
C8_PowerRightAssociative ==
    /\ ((ParseReturned \/ ParseThrew) /\ PowerChain(tokens) /\ Len(tokens) = 6) =>
          ParseReturned /\ RightNested(ast, tokens)
    /\ ((ParseReturned \/ ParseThrew) /\ PowerChain(tokens) /\ Len(tokens) = 8
            /\ IsBinaryOp(tokens[6]) /\ tokens[7].type \in AtomTypes
            /\ safeSpec(tokens[6]).lbp < safeSpec(tokens[2]).lbp) =>
          /\ ParseReturned
          /\ ast.type = (IF tokens[6].text = <<":">> THEN "Range" ELSE Str(tokens[6].text))
          /\ Len(ast.args) = 2
          /\ RightNested(ast.args[1], tokens)
          /\ LeafOf(ast.args[2], tokens[7])

\* a tree was returned for a ^ b ^ c * d
C8_Witness ==
    /\ ParseReturned
    /\ PowerChain(tokens)
    /\ Len(tokens) = 8
    /\ tokens[6].text = <<"*">>
    /\ ast.type = "*"

\* the nesting depth of parentheses before token k
Depth(ts, k) ==
    Cardinality({j \in 1..(k - 1) : ts[j].type = "LPAREN"})
        - Cardinality({j \in 1..(k - 1) : ts[j].type = "RPAREN"})

\* ts is one call F( ... ), then EOF
CallShape(ts) ==
    /\ Len(ts) >= 4
    /\ ts[1].type = "IDENT"
    /\ ts[2].type = "LPAREN"
    /\ ts[Len(ts) - 1].type = "RPAREN"
    /\ \A k \in 3..(Len(ts) - 1) : Depth(ts, k) >= 1

\* the positions of the commas of the call itself
TopCommas(ts) == {k \in 3..(Len(ts) - 2) : ts[k].type = "," /\ Depth(ts, k) = 1}

\* the positions delimiting the slots: the parentheses and the commas
Delimiters(ts) == {2, Len(ts) - 1} \cup TopCommas(ts)
Nth(S, n) == CHOOSE x \in S : Cardinality({y \in S : y < x}) = n - 1

\* every slot of the call is empty or holds one atom
AtomSlots(ts) ==
    /\ CallShape(ts)
    /\ \A k \in 3..(Len(ts) - 2) : ts[k].type \in {"CELL", ","}
    /\ \A k \in 3..(Len(ts) - 3) : ~(ts[k].type = "CELL" /\ ts[k + 1].type = "CELL")

\* C9: a call with something between its parentheses has one argument more
\* than it has commas of its own, in source order, the Missing arguments
\* being exactly those of the slots in which nothing stands; a call with
\* empty parentheses has no argument; a call whose slots are empty or hold
\* one atom each does parse
C9_CallArity ==
    /\ (ParseReturned /\ CallShape(tokens)) =>
          /\ ast.type = Str(toUpperCase(tokens[1].text))
          /\ IF Len(tokens) = 4 THEN ast.args = <<>>
             ELSE /\ Len(ast.args) = Cardinality(TopCommas(tokens)) + 1
                  /\ \A j \in DOMAIN ast.args :
                        LET open == Nth(Delimiters(tokens), j)
                            close == Nth(Delimiters(tokens), j + 1)
                        IN  /\ ast.args[j].type = "Missing" <=> close = open + 1
                            /\ ast.args[j].type # "Missing" =>
                                  /\ tokens[open].pos.end <= ast.args[j].loc.start
                                  /\ ast.args[j].loc.end <= tokens[close].pos.start
    /\ ((ParseReturned \/ ParseThrew) /\ AtomSlots(tokens)) => ParseReturned

\* a call was parsed whose first and last slots are empty and which has an
\* argument in between
C9_Witness ==
    /\ ParseReturned
    /\ CallShape(tokens)
    /\ Len(ast.args) >= 3
    /\ ast.args[1].type = "Missing"
    /\ ast.args[Len(ast.args)].type = "Missing"
    /\ \E j \in DOMAIN ast.args : ast.args[j].type # "Missing"

\* parseFormula is over: it has returned or thrown after lexing
PipelineOver == entry = "parseFormula" /\ pc \in {"done", "failed"} /\ ~LexFailed

\* the last three tokens inside the parentheses of the call are a op b
ComparisonLast(ts) ==
    /\ CallShape(ts)
    /\ Len(ts) >= 7
    /\ ts[Len(ts) - 4].type \in AtomTypes
    /\ Str(ts[Len(ts) - 3].text) \in cmp /\ ts[Len(ts) - 3].type \notin AtomTypes
    /\ ts[Len(ts) - 2].type \in AtomTypes

\* the call has the comparison as its only argument
OneComparison(ts) == ComparisonLast(ts) /\ Len(ts) = 7

\* the call has two arguments, the comparison being the second
ComparisonSecond(ts) ==
    /\ ComparisonLast(ts)
    /\ Len(ts) >= 9
    /\ TopCommas(ts) = {Len(ts) - 5}

\* n is the comparison node over the last three tokens inside the call
ComparisonOf(n, ts) ==
    BinaryOf(n, ts[Len(ts) - 3], ts[Len(ts) - 4], ts[Len(ts) - 2])

RECURSIVE Subtrees(_)
RECURSIVE SubtreesAll(_)
\* the nodes of a tree in preorder, each as often as a path leads to it
Subtrees(n) == <<n>> \o SubtreesAll(n.args)
SubtreesAll(ns) == IF ns = <<>> THEN <<>> ELSE Subtrees(Head(ns)) \o SubtreesAll(Tail(ns))

\* the tree parseTokensPratt returns for the tokens of the running call
ParsedTree == Identify(parseTokensPratt(tokens).node, <<"call", ToString(calls)>>)

\* the running call got past the parser
Parsed == TokenizeSucceeded /\ pc # "parse" /\ ~ParseThrew

\* the running call got past the parser and is over
ParsedAndOver == Parsed /\ pc \in {"done", "failed"}

\* how many nodes of the sequence q are FILTER calls of at least n children
FilterCalls2(q, n) ==
    Cardinality({k \in DOMAIN q : q[k].type = "FILTER" /\ Len(q[k].args) >= n})

Labels(n) == [k \in DOMAIN n.args |-> n.args[k].type]

\* the children of n are the labelled wrappers, in order
Wrapped(n) ==
    /\ Labels(n) \in {<<"array", "include">>, <<"array", "include", "ifEmpty">>}
    /\ \A k \in DOMAIN n.args : n.args[k].name = n.args[k].type

\* every FILTER call of two children or more in the sequence q is wrapped
AllWrapped(q) ==
    \A k \in DOMAIN q :
        (q[k].type = "FILTER" /\ Len(q[k].args) >= 2) => Wrapped(q[k])

\* the final tree given its nodes q and the nodes raw of the parsed tree:
\* as many wrapped FILTER calls as FILTER calls written with two arguments
\* or more, as many with ifEmpty as written with three
RebuiltFrom(q, raw) ==
    /\ AllWrapped(q)
    /\ FilterCalls2(q, 2) = FilterCalls2(raw, 2)
    /\ FilterCalls2(q, 3) = FilterCalls2(raw, 3)

\* C11: for every formula the parser accepts the pipeline returns a tree in
\* which every FILTER call written with two arguments or more, at any
\* depth, has exactly the wrappers array, include and, if and only if a
\* third argument was written, ifEmpty as its children, in this order,
\* whatever the arguments are
C11_EveryFilterRebuilt ==
    ParsedAndOver =>
        /\ pc = "done"
        /\ RebuiltFrom(Subtrees(ast), Subtrees(ParsedTree))

\* n is a "*" node of two children, a link of a multiplication chain
ChainLink(n) == n.type = "*" /\ Len(n.args) = 2

RECURSIVE ChainStars(_)
\* the links of the maximal multiplication chain rooted at n
ChainStars(n) ==
    IF ChainLink(n) THEN 1 + ChainStars(n.args[1]) + ChainStars(n.args[2]) ELSE 0

RECURSIVE Shape(_)
\* the structure of a tree: its nodes without their identity and without
\* the mark of the pruning
Shape(n) ==
    [n EXCEPT !.id = NoId, !.hasArgs = TRUE,
              !.args = [k \in DOMAIN n.args |-> Shape(n.args[k])]]

\* c stands for the node r: the same kind, value, name and span, and the
\* same structure below unless a FILTER call below r was rebuilt
CopyOf(c, r) ==
    /\ c.type = r.type /\ c.value = r.value /\ c.name = r.name /\ c.loc = r.loc
    /\ FilterCalls2(Subtrees(r), 2) = 0 => Shape(c) = Shape(r)

RECURSIVE ChainLeaf(_, _)
\* c stands for a leaf operand of the maximal chain rooted at n
ChainLeaf(n, c) ==
    IF ChainLink(n) THEN ChainLeaf(n.args[1], c) \/ ChainLeaf(n.args[2], c)
    ELSE CopyOf(c, n)

\* the include wrapper inc against the second argument raw2 as parsed
IncludeHolds(inc, raw2) ==
    /\ inc.type = "include"
    /\ Len(inc.args) = ChainStars(raw2) + 1
    /\ \A k \in DOMAIN inc.args :
          /\ ~ChainLink(inc.args[k])
          /\ ChainLeaf(raw2, inc.args[k])
    /\ \A k \in 1..(Len(inc.args) - 1) :
          inc.args[k].loc.start < inc.args[k + 1].loc.start
    /\ ~ChainLink(raw2) => (Len(inc.args) = 1 /\ CopyOf(inc.args[1], raw2))

\* the outermost FILTER call of a tree: the root, or the first argument of
\* the root
OuterFilter(t) == IF t.type = "FILTER" THEN t ELSE t.args[1]

\* normalizeFilters has run on a tree whose outermost FILTER call was
\* written with two arguments or more
FilterNormalized ==
    /\ Parsed
    /\ pc \in {"prune", "done"}
    /\ ParsedTree.type \in {"FILTER", "SUM"}
    /\ Len(OuterFilter(ParsedTree).args) >= 2

\* C12: the include wrapper holds, in source order, exactly the leaf
\* operands of the maximal chain of two-child "*" nodes rooted at the
\* second argument: one clause more than the chain has links, none a
\* two-child "*" node, each a copy of a leaf of the chain, at increasing
\* offsets, and a single clause when the second argument is no "*" node;
\* the same for a FILTER call nested in the first argument
C12_IncludeHoldsChainLeaves ==
    FilterNormalized =>
        LET raw == OuterFilter(ParsedTree)
            out == OuterFilter(ast)
        IN  /\ IncludeHolds(out.args[2], raw.args[2])
            /\ (raw.args[1].type = "FILTER" /\ Len(raw.args[1].args) >= 2) =>
                  IncludeHolds(out.args[1].args[1].args[2], raw.args[1].args[2])

\* FILTER(range, (a = b) * (c > d)) was returned with the two comparisons
\* as the clauses of include and without ifEmpty
C12_Witness ==
    /\ FilterNormalized
    /\ pc = "done"
    /\ ast.type = "FILTER"
    /\ Labels(ast) = <<"array", "include">>
    /\ ast.args[1].args[1].type = "Range"
    /\ ChainStars(ParsedTree.args[2]) = 1
    /\ Labels(ast.args[2]) = <<"=", ">">>

\* the tree after the first application of normalizeFilters in the running
\* call, the tables being empty when the call began
FirstPass ==
    normalizeFilters(collapseBinary(ParsedTree).node, Tables({}, {}, FALSE)).node

\* how many nodes of the sequence q are wrappers
Wrappers(q) ==
    Cardinality({k \in DOMAIN q : q[k].type \in {"array", "include", "ifEmpty"}})

\* C13: normalizeFilters applied again to the tree it has normalized
\* leaves the tree as the first application left it: the same nodes with
\* the same children, no wrapper wrapped again, no clause added or removed
C13_NormalizeTwiceIsOnce ==
    (Parsed /\ pc = "prune" /\ passes >= 2) =>
        /\ ast = FirstPass
        /\ Wrappers(Subtrees(ast)) = Wrappers(Subtrees(FirstPass))

\* normalizeFilters ran twice on a tree with a FILTER call of two clauses
\* and a FILTER call nested in its array argument
C13_Witness ==
    /\ Parsed /\ pc = "prune" /\ passes >= 2
    /\ ast.type = "FILTER"
    /\ Labels(ast) = <<"array", "include", "ifEmpty">>
    /\ Len(ast.args[2].args) = 2
    /\ ast.args[1].args[1].type = "FILTER"
    /\ Labels(ast.args[1].args[1]) = <<"array", "include">>

\* the identities of the sequence q are pairwise distinct
Distinct(q) == Cardinality(Range(q)) = Len(q)

\* the identities of the nodes below the wrappers among the nodes q
UnderWrappers(q) ==
    UNION { Range(PreorderIdsAll(q[k].args)) :
              k \in {j \in DOMAIN q : q[j].type \in {"array", "include", "ifEmpty"}} }

\* the tree normalizeFilters is given in the running call
PrePass == collapseBinary(ParsedTree).node

\* C14: after collapseBinary and normalizeFilters no node is met twice on
\* a walk of the tree from the root (no node has two parent paths, none
\* is its own descendant), every node under a wrapper is a clone that is
\* no node of the tree before the pass, and deepClone never took a clone
\* from clonedMemo
C14_StrictTree ==
    (Parsed /\ pc \in {"prune", "done"}) =>
        /\ Distinct(PreorderIds(ast))
        /\ UnderWrappers(Subtrees(ast)) \cap Range(PreorderIds(PrePass)) = {}
        /\ ~memoHit

\* a FILTER call inside SUM was returned with three wrappers, its mask
\* being a FILTER call that was rebuilt below the include wrapper
C14_Witness ==
    /\ Parsed /\ pc = "done"
    /\ ast.type = "SUM"
    /\ Labels(ast.args[1]) = <<"array", "include", "ifEmpty">>
    /\ Labels(ast.args[1].args[2]) = <<"FILTER">>
    /\ Labels(ast.args[1].args[2].args[1]) = <<"array", "include">>
    /\ Cardinality(UnderWrappers(Subtrees(ast))) >= 6

\* how many nodes of the sequence q have the given type
OfType(q, type) == Cardinality({k \in DOMAIN q : q[k].type = type})

\* C15: parseFormula accepts the formula of the README's Quick Start and
\* returns a tree: the call is a SUM over a FILTER call, and the three
\* references A1:C10, B:B and C:C are Range nodes; the call ends in no
\* lexer or parser error
C15_QuickStartAccepted ==
    (entry = "parseFormula" /\ formula = QuickStart /\ pc \in {"done", "failed"}) =>
        /\ pc = "done"
        /\ ast.type = "SUM"
        /\ OfType(Subtrees(ast), "FILTER") = 1
        /\ OfType(Subtrees(ast), "Range") = 3

\* C16: in the tree parseFormula returns each node either has no args
\* attribute or has at least one child, and while the two passes run, and
\* until pruneEmptyArgs has run, every node still has its args attribute
C16_NoEmptyChildren ==
    /\ (entry = "parseFormula" /\ pc = "done") =>
          \A k \in DOMAIN Subtrees(ast) :
              Subtrees(ast)[k].hasArgs <=> Len(Subtrees(ast)[k].args) > 0
    /\ (entry = "parseFormula" /\ pc \in {"collapse", "normalize", "prune"}) =>
          \A k \in DOMAIN Subtrees(ast) : Subtrees(ast)[k].hasArgs

\* a rebuilt FILTER call was returned: the cloned cell below the array
\* wrapper lost its args, the cloned comparison below include kept its two
\* children, whose args are gone too
C16_Witness ==
    /\ entry = "parseFormula" /\ pc = "done"
    /\ ast.type = "FILTER"
    /\ Labels(ast) = <<"array", "include">>
    /\ ast.args[1].args[1].type = "CELL"
    /\ ~ast.args[1].args[1].hasArgs
    /\ ast.args[2].args[1].type \in cmp
    /\ ast.args[2].args[1].hasArgs
    /\ Len(ast.args[2].args[1].args) = 2
    /\ ~ast.args[2].args[1].args[2].hasArgs

(***************************************************************************)
(* C17 to C20: the parser's nodes, its failures and its state.             *)
(***************************************************************************)
\* how many of the tokens ts have the given text
WithText(ts, text) == Cardinality({j \in DOMAIN ts : ts[j].text = text})

\* C17: in the tree parseTokensPratt returns there is no node of type ":";
\* each ":" token was consumed in infix position and left one node of
\* type Range, made from that token, with exactly the two children left and
\* right
C17_ColonBuildsRange ==
    ParseReturned =>
        /\ OfType(Subtrees(ast), ":") = 0
        /\ OfType(Subtrees(ast), "Range") = WithText(tokens, <<":">>)
        /\ \A k \in DOMAIN Subtrees(ast) :
              Subtrees(ast)[k].type = "Range" =>
                  /\ Len(Subtrees(ast)[k].args) = 2
                  /\ \E j \in DOMAIN tokens :
                        /\ tokens[j].text = <<":">>
                        /\ tokens[j].pos = Subtrees(ast)[k].loc
                        /\ Subtrees(ast)[k].args[1].loc.start < tokens[j].pos.start
                        /\ Subtrees(ast)[k].args[2].loc.start > tokens[j].pos.start

\* a chain a : b : c was parsed into a Range whose left child is a Range
C17_Witness ==
    /\ ParseReturned
    /\ WithText(tokens, <<":">>) = 2
    /\ ast.type = "Range"
    /\ ast.args[1].type = "Range"
    /\ ast.args[2].type = "CELL"

\* the token at position k (1-based) of ts, EOF_TOKEN past the end
TokenAt(ts, k) == peek(ts, k - 1)

\* the token has a table entry and the entry has no prefix handler
NoPrefix(tok) == hasSpec(tok) /\ safeSpec(tok).nud = ""

\* the token is an atom of the table
IsAtom(tok) == tok.type \in AtomTypes

\* the token is an operator with an infix handler that reads a right operand
IsInfix(tok) == hasSpec(tok) /\ safeSpec(tok).led \in {"infixLeft", "infixRight"}

\* the token ends an expression without being the closing parenthesis
EndsOpen(tok) == hasSpec(tok) /\ safeSpec(tok).lbp = 0 /\ tok.type # "RPAREN"

\* parseTokensPratt threw the given message about the given token
Threw(msg, tok) == ParseThrew /\ error.msg = msg /\ error.text = Str(tok.text)

\* parseTokensPratt threw 'Expected RPAREN' at the offset of the given token
ThrewExpected(tok) ==
    ParseThrew /\ error.msg = "Expected RPAREN" /\ error.at = tok.pos.start

\* the call of parseTokensPratt is over
ParseOver == ParseReturned \/ ParseThrew

\* C18: parseTokensPratt ends with a tree and no error or with an error
\* and no tree.  An empty stream, a first token without prefix handler and
\* a token without prefix handler after a dangling operator give
\* 'Unexpected token'; a group or a call whose inner expression is complete
\* and is followed by a token other than ")" gives 'Expected RPAREN' at
\* that token; a token without table entry, first or after an operand,
\* gives 'No Pratt spec', and a returned tree means every token had an entry
C18_TreeOrError ==
    /\ ParseReturned => (ast # NoNode /\ error = NoError)
    /\ ParseThrew => (ast = NoNode /\ error # NoError)
    /\ (ParseOver /\ NoPrefix(TokenAt(tokens, 1))) =>
          Threw("Unexpected token", TokenAt(tokens, 1))
    /\ (ParseOver /\ IsAtom(TokenAt(tokens, 1)) /\ IsInfix(TokenAt(tokens, 2))
            /\ NoPrefix(TokenAt(tokens, 3))) =>
          Threw("Unexpected token", TokenAt(tokens, 3))
    /\ (ParseOver /\ TokenAt(tokens, 1).type = "LPAREN" /\ IsAtom(TokenAt(tokens, 2))
            /\ EndsOpen(TokenAt(tokens, 3))) =>
          ThrewExpected(TokenAt(tokens, 3))
    /\ (ParseOver /\ TokenAt(tokens, 1).type = "IDENT"
            /\ TokenAt(tokens, 2).type = "LPAREN" /\ IsAtom(TokenAt(tokens, 3))
            /\ EndsOpen(TokenAt(tokens, 4)) /\ TokenAt(tokens, 4).type # ",") =>
          ThrewExpected(TokenAt(tokens, 4))
    /\ (ParseOver /\ ~hasSpec(TokenAt(tokens, 1))) =>
          Threw("No Pratt spec", TokenAt(tokens, 1))
    /\ (ParseOver /\ IsAtom(TokenAt(tokens, 1)) /\ ~hasSpec(TokenAt(tokens, 2))) =>
          Threw("No Pratt spec", TokenAt(tokens, 2))
    /\ ParseReturned => \A j \in DOMAIN tokens : hasSpec(tokens[j])

\* a group was opened, its operand read, and the end of the stream came
\* instead of the closing parenthesis
C18_Witness ==
    /\ ThrewExpected(TokenAt(tokens, 3))
    /\ TokenAt(tokens, 1).type = "LPAREN"
    /\ TokenAt(tokens, 3).type = "EOF"
    /\ ast = NoNode

RECURSIVE tokenizeFrom(_, _)
\* the loop of tokenize once the iteration at cursor k of text gave st
afterStep(text, k, st) ==
    IF st.len = 0
    THEN [ok |-> FALSE, toks |-> <<>>,
          err |-> [msg |-> "Unrecognised input", at |-> k, text |-> At(text, k),
                   ctx |-> Str(Slice(text, IF k - 3 > 0 THEN k - 3 ELSE 0, k + 3))]]
    ELSE [tokenizeFrom(text, k + st.len) EXCEPT !.toks = st.toks \o @]

\* the tokens of text from cursor k on, or the error thrown
tokenizeFrom(text, k) ==
    IF k >= Len(text) THEN [ok |-> TRUE, toks |-> <<EofToken(text)>>, err |-> NoError]
    ELSE afterStep(text, k, Step(text, k))

RECURSIVE Anonymous(_)
\* a tree without the identities of its nodes
Anonymous(n) ==
    [n EXCEPT !.id = NoId, !.args = [k \in DOMAIN n.args |-> Anonymous(n.args[k])]]

Thrown(err) == [ok |-> FALSE, node |-> NoNode, err |-> err]
Returned(n) == [ok |-> TRUE, node |-> Anonymous(n), err |-> NoError]

\* the passes of parseFormula on the parser's tree, the tables being empty
passesFirst(collapsed) ==
    IF ~collapsed.ok
    THEN Thrown(Error("Maximum call stack size exceeded", NoOffset, ""))
    ELSE Returned(pruneEmptyArgs(
             normalizeFilters(collapsed.node, Tables({}, {}, FALSE)).node))

parseFirst(parsed) ==
    IF ~parsed.ok THEN Thrown(parsed.err)
    ELSE passesFirst(collapseBinary(Identify(parsed.node, <<"call", "1">>)))

lexFirst(lexed) ==
    IF ~lexed.ok THEN Thrown(lexed.err) ELSE parseFirst(parseTokensPratt(lexed.toks))

\* what parseFormula(f) gives as the first call of a session
FirstCall(f) == lexFirst(tokenizeFrom(TokenizeSource(Cleaned(f)), 0))

\* the running call of parseFormula is over
CallOver == entry = "parseFormula" /\ pc \in {"done", "failed"}

\* C19: whatever calls of parseFormula came before, returned or aborted in
\* tokenize, in the parser or in a pass, a call returns the tree a first
\* call returns for the same string, node for node, and throws what a
\* first call throws
C19_CallsAreIndependent ==
    CallOver =>
        /\ (pc = "done") = FirstCall(formula).ok
        /\ pc = "done" => Anonymous(ast) = FirstCall(formula).node
        /\ pc = "failed" => error = FirstCall(formula).err

\* a third call returned a rebuilt FILTER tree after a call that returned
\* one, leaving entries in both tables, and a call that aborted
C19_Witness ==
    /\ CallOver
    /\ pc = "done"
    /\ calls = 3
    /\ history[1] = "returned"
    /\ history[2] # "returned"
    /\ OfType(Subtrees(ast), "include") >= 1
    /\ \E v \in normalised : v[2] = "1"
    /\ \E v \in normalised : v[2] = "3"

\* the span a covers the span b
Covers(a, b) == a.start <= b.start /\ b.end <= a.end

\* C20: every node of the tree the parser returns has a span that contains
\* the spans of its children, and the root, derived from the whole
\* expression, spans from the start of the first token to the end of the
\* last token before EOF
C20_SpanCoversSubexpression ==
    (ParseReturned /\ Len(tokens) >= 2) =>
        /\ ast.loc = Pos(tokens[1].pos.start, tokens[Len(tokens) - 1].pos.end)
        /\ \A k \in DOMAIN Subtrees(ast) :
              \A j \in DOMAIN Subtrees(ast)[k].args :
                  Covers(Subtrees(ast)[k].loc, Subtrees(ast)[k].args[j].loc)

(***************************************************************************)
(* C21: the text and the span of each token.                               *)
(***************************************************************************)
\* C21: every token tokenize returns has as text the substring of the
\* tokenized string at its span, so its span is as long as its text, and
\* no token starts before the end of the token before it: the IDENT and
\* LPAREN tokens of a function call and the "," token of a ";" included
C21_TextIsSubstringAtSpan ==
    TokenizeSucceeded =>
        /\ \A k \in DOMAIN tokens :
              /\ tokens[k].pos.start <= tokens[k].pos.end
              /\ tokens[k].pos.end - tokens[k].pos.start = Len(tokens[k].text)
              /\ tokens[k].text = Slice(src, tokens[k].pos.start, tokens[k].pos.end)
        /\ \A k \in 2..Len(tokens) : tokens[k - 1].pos.end <= tokens[k].pos.start

(***************************************************************************)
(* C22..C24: collapseBinary on the trees of the parser.                    *)
(***************************************************************************)
RECURSIVE Triples(_)
\* the number of triples of the child lists of the nodes ns
Triples(ns) ==
    IF ns = <<>> THEN 0 ELSE (Len(Head(ns).args) \div 3) + Triples(Tail(ns))

\* the parser returned a tree and collapseBinary was called on it
Collapsed == Parsed /\ pc # "collapse"

\* C22: collapseBinary returns on every tree of the parser, a call with a
\* comparison as a middle argument such as IF(A1,B1=2,3) included, and adds
\* at most one wrapper for each triple of the child lists of that tree
C22_CollapseTerminates ==
    Collapsed =>
        /\ error.msg # "Maximum call stack size exceeded"
        /\ NodeCount(PrePass) <= NodeCount(ParsedTree) + Triples(Subtrees(ParsedTree))

\* the child list ns with every wrapper replaced by its three children
Unwrapped(ns) ==
    Flatten([k \in DOMAIN ns |->
                IF ns[k].type = "Expression" THEN ns[k].args ELSE <<ns[k]>>])

\* what the scan of the child list of n emits
Scanned(n) == collapseScan(n.args, 0, n.id)

\* the list emitted of the child list args is the greedy one: the element
\* emitted at position k is a wrapper of the three children from its offset
\* on exactly when the third exists and the second is relational, the child
\* there otherwise
GreedyScan(args, emitted) ==
    \A k \in DOMAIN emitted :
        LET at == Len(Unwrapped(SubSeq(emitted, 1, k - 1)))
            e == emitted[k]
        IN  IF at + 3 <= Len(args) /\ args[at + 2].type \in cmp
            THEN /\ e.type = "Expression"
                 /\ e.args = SubSeq(args, at + 1, at + 3)
                 /\ e.loc = Pos(args[at + 1].loc.start, args[at + 3].loc.end)
            ELSE e = args[at + 1]

\* on the child list of each of the nodes ns the scan is greedy and
\* unwrapping what it emits gives back the list
ScansKeepChildren(ns) ==
    \A k \in DOMAIN ns :
        /\ Unwrapped(Scanned(ns[k])) = ns[k].args
        /\ GreedyScan(ns[k].args, Scanned(ns[k]))

\* collapseBinary has just returned or thrown
JustCollapsed ==
    Parsed /\ (pc = "normalize" \/ error.msg = "Maximum call stack size exceeded")

IsCall(n) ==
    /\ n.type # "NamedRange"
    /\ \E k \in DOMAIN tokens : tokens[k].type = "IDENT" /\ tokens[k].pos = n.loc

\* C24: collapseBinary keeps the number of children of every function call of
\* a parsed tree
C24_CallArityKept ==
    Collapsed =>
        \A k \in DOMAIN Subtrees(ParsedTree) :
            IsCall(Subtrees(ParsedTree)[k]) =>
                \E j \in DOMAIN Subtrees(PrePass) :
                    /\ Subtrees(PrePass)[j].id = Subtrees(ParsedTree)[k].id
                    /\ Len(Subtrees(PrePass)[j].args) = Len(Subtrees(ParsedTree)[k].args)

(***************************************************************************)
(* C25: what a prefix sign takes as its operand.                           *)
(***************************************************************************)
\* the node n has the type and the span of the operator token tok and the
\* given number of children
OperatorOf(n, tok, arity) ==
    /\ n.type = (IF tok.text = <<":">> THEN "Range" ELSE Str(tok.text))
    /\ n.loc = tok.pos
    /\ Len(n.args) = arity

\* the tokens are a sign, an atom, count more tokens and EOF
SignedAtom(count) ==
    /\ Len(tokens) = count + 3
    /\ tokens[1].type \in {"+", "-"}
    /\ IsAtom(tokens[2])

\* C25: of the tokens sign a op b, with a and b atoms, the parser returns
\* op(sign(a), b) when the infix operator op is not "^" and sign(^(a, b))
\* when it is; of sign a % it returns sign(%(a))
C25_SignBindsTighterExceptPower ==
    /\ (ParseOver /\ SignedAtom(2) /\ IsInfix(tokens[3]) /\ IsAtom(tokens[4])) =>
          /\ ParseReturned
          /\ IF tokens[3].type # "^"
             THEN /\ OperatorOf(ast, tokens[3], 2)
                  /\ OperatorOf(ast.args[1], tokens[1], 1)
                  /\ LeafOf(ast.args[1].args[1], tokens[2])
                  /\ LeafOf(ast.args[2], tokens[4])
             ELSE /\ OperatorOf(ast, tokens[1], 1)
                  /\ OperatorOf(ast.args[1], tokens[3], 2)
                  /\ LeafOf(ast.args[1].args[1], tokens[2])
                  /\ LeafOf(ast.args[1].args[2], tokens[4])
    /\ (ParseOver /\ SignedAtom(1) /\ tokens[3].type = "%") =>
          /\ ParseReturned
          /\ OperatorOf(ast, tokens[1], 1)
          /\ OperatorOf(ast.args[1], tokens[3], 1)
          /\ LeafOf(ast.args[1].args[1], tokens[2])

(***************************************************************************)
(* C26: a number followed by "%".                                          *)
(***************************************************************************)
\* the formula is digits, with a fraction or without, and a "%" after them
NumberPercent ==
    /\ Len(formula) >= 2
    /\ formula[Len(formula)] = "%"
    /\ formula[1] \in {"0", "1", "2", "3", "4", "5", "6", "7", "8", "9"}
    /\ \A k \in 1..(Len(formula) - 1) :
          formula[k] \in {"0", "1", "2", "3", "4", "5", "6", "7", "8", "9", "."}

\* C26: parseFormula on a number followed by "%" (50%, 12.5%) returns a "%"
\* node with the NUMBER node as its only child, the shape it returns on A1%
C26_NumberPercentIsPostfix ==
    (entry = "parseFormula" /\ pc \in {"done", "failed"} /\ NumberPercent) =>
        /\ pc = "done"
        /\ ast.type = "%"
        /\ Len(ast.args) = 1
        /\ ast.args[1].type = "NUMBER"
        /\ ast.args[1].args = <<>>

(***************************************************************************)
(* C27: parentheses.                                                       *)
(***************************************************************************)
\* the tokens ts are a parenthesis, at least one token, a closing
\* parenthesis and EOF
Grouped(ts) ==
    /\ Len(ts) >= 4
    /\ ts[1].type = "LPAREN"
    /\ ts[Len(ts) - 1].type = "RPAREN"

\* the tokens between the two parentheses of ts, where they are, then EOF
Inner(ts) ==
    Append(SubSeq(ts, 2, Len(ts) - 2),
           Token("EOF", <<>>, Pos(ts[Len(ts) - 1].pos.start, ts[Len(ts) - 1].pos.start)))

\* the tokens ts are ( a op1 b ) op2 c and EOF, with atoms a, b and c and
\* infix operators op1 and op2
GroupedLeft(ts) ==
    /\ Len(ts) = 8
    /\ ts[1].type = "LPAREN" /\ ts[5].type = "RPAREN"
    /\ IsAtom(ts[2]) /\ IsAtom(ts[4]) /\ IsAtom(ts[7])
    /\ IsInfix(ts[3]) /\ IsInfix(ts[6])

\* when the parser returns the tree inner of the tokens between the
\* parentheses, it has returned that same tree of the whole
SameTree(inner) ==
    inner.ok =>
        /\ ParseReturned
        /\ ast = Identify(inner.node, <<"call", ToString(calls)>>)

C28_RangeKeepsEndCells ==
    ParseReturned =>
        \A k \in DOMAIN Subtrees(ast) : \A j \in 2..(Len(tokens) - 1) :
            ( /\ Subtrees(ast)[k].type = "Range"
              /\ Subtrees(ast)[k].loc = tokens[j].pos
              /\ tokens[j].type = ":"
              /\ tokens[j - 1].type = "CELL"
              /\ tokens[j + 1].type = "CELL" ) =>
                /\ Len(Subtrees(ast)[k].args) = 2
                /\ LeafOf(Subtrees(ast)[k].args[1], tokens[j - 1])
                /\ LeafOf(Subtrees(ast)[k].args[2], tokens[j + 1])

(***************************************************************************)
(* C29: the guard of the continuation loop.                                *)
(***************************************************************************)
\* C29: every entry of the table with a binding power above 0 has an infix
\* or postfix handler, and no call ends with 'Token ... cannot appear here':
\* the loop of expression consumes no token that lacks such a handler
C29_CannotAppearUnreachable ==
    /\ \A k \in DOMAIN table : table[k].lbp > 0 => table[k].led # ""
    /\ error.msg # "Token cannot appear here"
    /\ \A k \in DOMAIN tokens :
          (hasSpec(tokens[k]) /\ safeSpec(tokens[k]).lbp > 0) =>
              safeSpec(tokens[k]).led \in {"postfix", "infixLeft", "infixRight"}

\* the loop consumed a "%" and a "^" after a signed atom, each through its
\* handler, and stopped at EOF
C29_Witness ==
    /\ ParseReturned
    /\ SignedAtom(3)
    /\ tokens[3].type = "%"
    /\ tokens[4].type = "^"
    /\ OperatorOf(ast, tokens[4], 2)
    /\ OperatorOf(ast.args[1], tokens[1], 1)
    /\ OperatorOf(ast.args[1].args[1], tokens[3], 1)
    /\ idx = 5

(***************************************************************************)
(* C30: the cursors of tokenize and of parseTokensPratt.                   *)
(***************************************************************************)
\* the call r, entered with the cursor at k, left it further on and at most
\* one past the tokens
Advances(k, r) == r.idx > k /\ r.idx <= Len(tokens) + 1

\* every call of expression and every round of the argument loop, entered
\* at any place of the tokens, ends with the cursor further on
ParserAdvances ==
    ParseOver =>
        /\ idx > 0
        /\ idx <= Len(tokens) + 1
        /\ \A k \in 0..Len(tokens) :
              /\ Advances(k, expression(tokens, k, 0))
              /\ Advances(k, arguments(tokens, k, <<>>))

\* every round of the loop of tokenize that did not throw took one character
\* at least, from where the round before had left the cursor, and the cursor
\* is within the string
TokenizerAdvances ==
    /\ i <= Len(src)
    /\ matches # <<>> => matches[1].at = 0
    /\ \A k \in DOMAIN matches :
          /\ Len(matches[k].lexeme) >= 1
          /\ matches[k].at + Len(matches[k].lexeme)
                = (IF k < Len(matches) THEN matches[k + 1].at ELSE i)

\* C30: tokenize and parseTokensPratt terminate: each round of the loop of
\* tokenize throws or moves the cursor on within the string, and each call
\* of expression and each round of the argument loop, the blank argument
\* included, consumes at least one token, the cursor staying within the
\* tokens and the one advance past them that meets EOF
C30_CursorsAdvance == TokenizerAdvances /\ ParserAdvances

\* the call F(,A1,) is over: two blank arguments pushed 'Missing' without
\* consuming and the cursor is past the closing parenthesis
C30_Witness ==
    /\ entry = "parseTokensPratt"
    /\ ParseReturned
    /\ Len(tokens) = 7
    /\ tokens[3].type = ","
    /\ tokens[5].type = ","
    /\ Len(ast.args) = 3
    /\ ast.args[1].type = "Missing"
    /\ ast.args[3].type = "Missing"
    /\ idx = 6

====
